---- MODULE Spec2Model ----
(***************************************************************************)
(* A model of binprint's content-addressed graph store                     *)
(* (store/cache.go, record/fingerprint.go).                                *)
(*                                                                         *)
(* Pointers are modelled as 1-based positions in the store's slices (an    *)
(* interned node is never moved or removed); the cache id a node records   *)
(* is the 0-based value the code stores in embeddedCacheID.  A pointer     *)
(* value of 0 is nil.  Digests are naturals, 0 being the all-zero digest.  *)
(***************************************************************************)
EXTENDS Naturals, Sequences, FiniteSets, TLC

(***************************************************************************)
(* Bounds of the model.                                                    *)
(***************************************************************************)
\* number of distinct blobs whose fingerprints are offered to the store
MaxBlob == 2
\* cap on the number of interned fingerprints
MaxFingerprints == 2
\* number of bits of the Bloom filter in front of the git-sha index
FilterBits == 2
\* cap on the number of interned files
MaxFiles == 2
\* cap on the number of interned archives
MaxArchives == 1
\* cap on the number of interned git repo sources
MaxRepos == 1
\* number of distinct file paths
MaxPath == 2
\* longest entry list of an archive or file list of a repo offered to the store
MaxEntries == 1
\* number of distinct stat-cache keys
MaxStat == 1
\* number of goroutines that call the store concurrently
NumTasks == 2
\* number of calls the goroutines make on the store, all together
MaxCalls == 3
\* number of scan processes run one after the other on the same directory
MaxSessions == 2
\* length of the input of a passthrough tee, in bytes
MaxInput == 2
\* number of calls of fingerprintPassthrough, and of CalculateSums
MaxRuns == 2
\* number of members an archive is traversed for
MaxMembers == 3
\* the limit the scans are called with (10 in deepScanWorker)
ScanLimit == 2
\* the archives around the innermost one, at most
MaxNest == 3
\* the entries of an archive that is not nested, at most
MaxLeaves == 2
\* the files of the inventory scanned one after the other
MaxScans == 2
\* number of blobs of a git tree
MaxTree == 2
\* number of calls of GitRepoSourceFromRef, and of commits
MaxRefs == 2
\* length of the stream magic of the model (10 in Snappy)
MagicLen == 2
\* longest input of snapcat
MaxCat == 3
\* cap on the number of interned archives where archives are told apart
MaxContainers == 2
\* the archives, and the packages, a directory walk finds, at most
MaxWork == 2
\* the workers ScanAndInventoryPath starts for the archives, and for the packages
NumWorkers == 3
\* the calls of Digest on one hasher, at most
MaxDigests == 3

VARIABLES
    Fingerprints,     \* v.Fingerprints: sequence of interned fingerprints
    gitSHAIndex,      \* v.gitSHAIndex: git-sha -> cache id
    gitSHAFilter,     \* v.gitSHAFilter: the set bits of the Bloom filter
    Files,            \* v.Files: sequence of interned files
    ArchiveFiles,     \* v.ArchiveFiles: sequence of interned archives
    GitRepoSources,   \* v.GitRepoSources: sequence of interned git repo sources
    statCache,        \* v.statCache: stat key -> pointer to a fingerprint
    last,             \* the last completed store call (call, argument, result)
    locks,            \* the holder of each of the store's four mutexes (0: free)
    tasks,            \* per goroutine: its stack of store calls in progress
    calls,            \* per goroutine: its latest top-level store call
    session,          \* the scan process and the two files PersistRememberedObjects writes
    tee,              \* the passthrough tee in progress: input, pipes, goroutines, future
    scan,             \* the archive scan in progress: channels, goroutine, Entries
    walk,             \* the recursive scan in progress: one frame per container entered
    calc,             \* the CalculateSums call in progress: its hashers and their goroutines
    ref,              \* the GitRepoSourceFromRef call in progress: tree, channels, goroutines
    cat,              \* the snapcat run in progress: input, peeked header, output
    pool,             \* the inventory driver's worker pool: channels, workers, wait group
    hasher            \* a BasicHasher: its pipe, its goroutine, the callers of Digest

toolVars == <<cat, pool, hasher>>

storeVars ==
    <<Fingerprints, gitSHAIndex, gitSHAFilter, Files, ArchiveFiles, GitRepoSources,
      statCache, session, tee, scan, walk, calc, ref, toolVars>>

concVars == <<locks, tasks, calls>>

vars == <<storeVars, last, concVars>>

(***************************************************************************)
(* record.Fingerprint                                                      *)
(***************************************************************************)
\* the nine digest fields of a Fingerprint
DigestKinds ==
    {"GitSHA", "MD5", "SHA1", "SHA256", "SHA384", "SHA512", "Hwy64", "Hwy128", "Hwy256"}

\* the zero value of record.Fingerprint (new(Fingerprint))
ZeroFingerprint ==
    [GitSHA |-> 0, MD5 |-> 0, SHA1 |-> 0, SHA256 |-> 0, SHA384 |-> 0, SHA512 |-> 0,
     Hwy64 |-> 0, Hwy128 |-> 0, Hwy256 |-> 0, Size |-> 0, id |-> 0, hasID |-> FALSE]

\* digest.IsZero
IsZero(d) == d = 0

\* embeddedCacheID.IsCached
IsCached(c) == c.hasID

\* embeddedCacheID.CacheID
CacheID(c) == c.id

\* embeddedCacheID.SetCacheID
SetCacheID(c, id) == [c EXCEPT !.hasID = TRUE, !.id = id]

\* Fingerprint.Is(other *Fingerprint); samePtr is the outcome of f == of
Is(f, of, samePtr) ==
    IF samePtr THEN TRUE
    ELSE IF f.Size # 0 /\ of.Size # 0 /\ f.Size # of.Size THEN FALSE
    ELSE \E k \in DigestKinds : ~IsZero(f[k]) /\ f[k] = of[k]

\* UpdateField with the IsZero test on the wrong operand: a digest that `of`
\* carries replaces the receiver's
UpdateFieldOverwrites(f, of, k) == IF ~IsZero(of[k]) /\ f[k] # of[k] THEN of[k] ELSE f[k]

\* one field of Fingerprint.UpdateWith: a zero digest is filled from `of`
UpdateField(f, of, k) == IF IsZero(f[k]) /\ f[k] # of[k] THEN of[k] ELSE f[k]

\* Fingerprint.UpdateWith(of): the receiver after the call
UpdateWith(f, of) ==
    [GitSHA |-> UpdateField(f, of, "GitSHA"),
     MD5    |-> UpdateField(f, of, "MD5"),
     SHA1   |-> UpdateField(f, of, "SHA1"),
     SHA256 |-> UpdateField(f, of, "SHA256"),
     SHA384 |-> UpdateField(f, of, "SHA384"),
     SHA512 |-> UpdateField(f, of, "SHA512"),
     Hwy64  |-> UpdateField(f, of, "Hwy64"),
     Hwy128 |-> UpdateField(f, of, "Hwy128"),
     Hwy256 |-> UpdateField(f, of, "Hwy256"),
     Size   |-> IF f.Size = 0 /\ of.Size # 0 THEN of.Size ELSE f.Size,
     id     |-> f.id,
     hasID  |-> f.hasID]

(***************************************************************************)
(* The Bloom filter (bloomfilter.Filter): a bit set and one hash function. *)
(***************************************************************************)
\* the bits the filter's hash assigns to a key
BloomBits(k) == {k % FilterBits}

\* Filter.Add
FilterAdd(filter, k) == filter \cup BloomBits(k)

\* Filter.Contains
FilterContains(filter, k) == BloomBits(k) \subseteq filter

(***************************************************************************)
(* The store as a value, so that a call is a function of the store.        *)
(***************************************************************************)
Store ==
    [Fingerprints |-> Fingerprints, gitSHAIndex |-> gitSHAIndex,
     gitSHAFilter |-> gitSHAFilter, Files |-> Files, ArchiveFiles |-> ArchiveFiles,
     GitRepoSources |-> GitRepoSources, statCache |-> statCache]

\* newInMemoryCache
EmptyStore ==
    [Fingerprints |-> <<>>, gitSHAIndex |-> <<>>, gitSHAFilter |-> {}, Files |-> <<>>,
     ArchiveFiles |-> <<>>, GitRepoSources |-> <<>>, statCache |-> <<>>]

\* m[k] = v on a Go map
MapPut(m, k, v) == [x \in (DOMAIN m) \cup {k} |-> IF x = k THEN v ELSE m[x]]

Min(S) == CHOOSE x \in S : \A y \in S : x <= y

\* A fingerprint argument: a pointer to an interned node (ptr > 0) or a
\* pointer to an object built by the caller (ptr = 0, its value in val).
InternedArg(p) == [ptr |-> p, val |-> ZeroFingerprint]
FreshArg(fp) == [ptr |-> 0, val |-> fp]
Deref(s, a) == IF a.ptr > 0 THEN s.Fingerprints[a.ptr] ELSE a.val

\* GetFingerprintByGitSHA: the pointer returned (0 for nil)
GetFingerprintByGitSHA(s, gitSHA) ==
    IF ~FilterContains(s.gitSHAFilter, gitSHA) THEN 0
    ELSE IF gitSHA \in DOMAIN s.gitSHAIndex THEN s.gitSHAIndex[gitSHA] + 1
    ELSE 0

\* the loop of PutFingerprint: the first interned fingerprint that Is(fp)
ScanFingerprints(s, a) ==
    LET fp == Deref(s, a)
        M  == {i \in 1..Len(s.Fingerprints) : Is(s.Fingerprints[i], fp, a.ptr = i)}
    IN  IF M = {} THEN 0 ELSE Min(M)

\* PutFingerprint after the early return, given the result `existing` of its
\* unlocked GetFingerprintByGitSHA call: the part under fingerprintsLock.
\* The result is the store after the call and the pointer returned.
PutFingerprintLocked(s, a, existing) ==
    LET fp == Deref(s, a)
        ex == IF existing = 0 THEN ScanFingerprints(s, a) ELSE existing
    IN  IF ex # 0
        THEN [store |-> [s EXCEPT !.Fingerprints[ex] = UpdateWith(s.Fingerprints[ex], fp)],
              ret |-> ex, merged |-> TRUE]
        ELSE LET id == Len(s.Fingerprints)
             IN  [store |-> [s EXCEPT
                        !.Fingerprints = Append(s.Fingerprints, SetCacheID(fp, id)),
                        !.gitSHAIndex = MapPut(s.gitSHAIndex, fp.GitSHA, id),
                        !.gitSHAFilter = FilterAdd(s.gitSHAFilter, fp.GitSHA)],
                  ret |-> id + 1, merged |-> FALSE]

\* PutFingerprint without its IsCached early return
PutFingerprintNoEarlyReturn(s, a) ==
    PutFingerprintLocked(s, a, GetFingerprintByGitSHA(s, Deref(s, a).GitSHA))

\* PutFingerprint run without interruption
PutFingerprint(s, a) ==
    IF IsCached(Deref(s, a))
    THEN [store |-> s, ret |-> a.ptr, merged |-> FALSE]
    ELSE PutFingerprintLocked(s, a, GetFingerprintByGitSHA(s, Deref(s, a).GitSHA))

(***************************************************************************)
(* record.File, record.ArchiveFile, record.GitRepoSource                   *)
(*                                                                         *)
(* An interned File holds a pointer to an interned Fingerprint; an         *)
(* ArchiveFile and a GitRepoSource hold pointers to interned Files.  A     *)
(* File argument is a pointer to an interned File (ptr > 0) or an object   *)
(* built by the caller, whose Fingerprint is a fingerprint argument.       *)
(***************************************************************************)
NilArg == [ptr |-> 0, val |-> ZeroFingerprint]
InternedFile(p) == [ptr |-> p, Path |-> 0, Fingerprint |-> NilArg]
FreshFile(path, fpArg) == [ptr |-> 0, Path |-> path, Fingerprint |-> fpArg]

\* f.Path and f.Fingerprint of a File argument
PathOf(s, fa) == IF fa.ptr > 0 THEN s.Files[fa.ptr].Path ELSE fa.Path
FingerprintArgOf(s, fa) ==
    IF fa.ptr > 0 THEN InternedArg(s.Files[fa.ptr].Fingerprint) ELSE fa.Fingerprint

\* the loop of PutFile: the first interned file with the path of f and the
\* same or an equivalent fingerprint (0 when there is none)
ScanFiles(s, fa) ==
    LET fpa == FingerprintArgOf(s, fa)
        M == {i \in 1..Len(s.Files) :
                /\ s.Files[i].Path = PathOf(s, fa)
                /\ \/ fpa.ptr = s.Files[i].Fingerprint
                   \/ Is(s.Fingerprints[s.Files[i].Fingerprint], Deref(s, fpa),
                         fpa.ptr = s.Files[i].Fingerprint)}
    IN  IF M = {} THEN 0 ELSE Min(M)

\* the id PutFile gives the file it has appended, with one added
FileIDOffByOne(files) == Len(files)

\* the id PutFile gives the file it has appended: len(v.Files) - 1
FileID(files) == Len(files) - 1

\* the end of PutFile writing f over the last element of v.Files instead of
\* appending it
AppendFileOverLast(s, path, fp) ==
    LET n == IF s.Files = <<>> THEN 1 ELSE Len(s.Files)
        f == SetCacheID([Path |-> path, Fingerprint |-> fp, id |-> 0, hasID |-> FALSE], n - 1)
    IN  [store |-> [s EXCEPT !.Files = IF @ = <<>> THEN <<f>> ELSE [@ EXCEPT ![n] = f]],
         ret |-> n]

\* the end of PutFile: f.Fingerprint = fp; append f to v.Files; set its id
AppendFile(s, path, fp) ==
    LET files == Append(s.Files, [Path |-> path, Fingerprint |-> fp, id |-> 0,
                                  hasID |-> FALSE])
        n == Len(files)
    IN  [store |-> [s EXCEPT !.Files = [files EXCEPT ![n] = SetCacheID(files[n], FileID(files))]],
         ret |-> n]

\* PutFile run without interruption
PutFile(s, fa) ==
    IF fa.ptr > 0 /\ IsCached(s.Files[fa.ptr]) THEN [store |-> s, ret |-> fa.ptr]
    ELSE LET m == ScanFiles(s, fa)
         IN  IF m # 0 THEN [store |-> s, ret |-> m]
             ELSE LET r == PutFingerprint(s, FingerprintArgOf(s, fa))
                  IN  AppendFile(r.store, PathOf(s, fa), r.ret)

\* rememberedFiles[i] = v.PutFile(f) for every f of a list, in order
RECURSIVE PutFiles(_, _)
PutFiles(s, fas) ==
    IF fas = <<>> THEN [store |-> s, ret |-> <<>>]
    ELSE LET r == PutFile(s, Head(fas))
             rest == PutFiles(r.store, Tail(fas))
         IN  [store |-> rest.store, ret |-> <<r.ret>> \o rest.ret]

\* the loop of PutArchiveFile finding no archive
ScanArchivesMisses(s, file) == 0

\* the loop of PutArchiveFile: the first archive whose File is the pointer file
ScanArchives(s, file) ==
    LET M == {i \in 1..Len(s.ArchiveFiles) : s.ArchiveFiles[i].File = file}
    IN  IF M = {} THEN 0 ELSE Min(M)

\* the end of PutArchiveFile: append r to v.ArchiveFiles and set its id
AppendArchive(s, file, entries) ==
    LET id == Len(s.ArchiveFiles)
    IN  [store |-> [s EXCEPT !.ArchiveFiles =
                        Append(s.ArchiveFiles,
                               SetCacheID([File |-> file, Entries |-> entries,
                                           id |-> 0, hasID |-> FALSE], id))],
         ret |-> id + 1]

\* PutArchiveFile run without interruption; ar = [File, Entries] of File arguments
PutArchiveFile(s, ar) ==
    LET f == PutFile(s, ar.File)
        m == ScanArchives(f.store, f.ret)
    IN  IF m # 0 THEN [store |-> f.store, ret |-> m]
        ELSE LET es == PutFiles(f.store, ar.Entries)
             IN  AppendArchive(es.store, f.ret, es.ret)

\* GitRepoSource.URN: fmt.Sprintf("urn:x-fp:git:%s:%s:%s", Commit, Branch, Tag),
\* as the sequence of its pieces (Branch and Tag are sequences of characters)
URN(r) == <<"urn:x-fp:git:", r.Commit, ":">> \o r.Branch \o <<":">> \o r.Tag

\* the loop of PutGitSource: the first repo with the URN of r
ScanRepos(s, r) ==
    LET M == {i \in 1..Len(s.GitRepoSources) : URN(s.GitRepoSources[i]) = URN(r)}
    IN  IF M = {} THEN 0 ELSE Min(M)

\* the end of PutGitSource: append r to v.GitRepoSources and set its id
AppendRepo(s, r, files) ==
    LET id == Len(s.GitRepoSources)
    IN  [store |-> [s EXCEPT !.GitRepoSources =
                        Append(s.GitRepoSources,
                               SetCacheID([Commit |-> r.Commit, Tag |-> r.Tag,
                                           Branch |-> r.Branch, URL |-> r.URL,
                                           Files |-> files, id |-> 0, hasID |-> FALSE], id))],
         ret |-> id + 1]

\* PutGitSource run without interruption; r.Files are File arguments
PutGitSource(s, r) ==
    LET m == ScanRepos(s, r)
    IN  IF m # 0 THEN [store |-> s, ret |-> m]
        ELSE LET fs == PutFiles(s, r.Files)
             IN  AppendRepo(fs.store, r, fs.ret)

\* PutStatFingerprint that caches a pointer to a fingerprint object that is
\* not in v.Fingerprints
PutStatFingerprintUninterned(s, key, fp) ==
    [s EXCEPT !.statCache = MapPut(s.statCache, key, Len(s.Fingerprints) + 1)]

\* PutStatFingerprint: statCache.Add(key, fingerprint)
PutStatFingerprint(s, key, fp) == [s EXCEPT !.statCache = MapPut(s.statCache, key, fp)]

\* GetStatFingerprint: the pointer cached for the key (0 for nil)
GetStatFingerprint(s, key) == IF key \in DOMAIN s.statCache THEN s.statCache[key] ELSE 0

\* the elements of a set of positions in ascending order: the order in which
\* a loop over a slice meets them
RECURSIVE Ascending(_)
Ascending(S) ==
    IF S = {} THEN <<>> ELSE <<Min(S)>> \o Ascending(S \ {Min(S)})

\* FindMatchingFingerprint for the matcher "the digest of kind k is d": the
\* first interned fingerprint the matcher accepts (0 for nil)
FindMatchingFingerprint(s, k, d) ==
    LET M == {i \in 1..Len(s.Fingerprints) : s.Fingerprints[i][k] = d}
    IN  IF M = {} THEN 0 ELSE Min(M)

\* FindFilesWithFingerprint(fp): fp is replaced by the node found under its
\* git-sha, then the files whose Fingerprint is that pointer are collected in
\* the order of v.Files; nil and the empty list are both the empty sequence
FindFilesWithFingerprint(s, a) ==
    LET fp == GetFingerprintByGitSHA(s, Deref(s, a).GitSHA)
    IN  IF fp = 0 THEN <<>>
        ELSE Ascending({f \in 1..Len(s.Files) : s.Files[f].Fingerprint = fp})

\* FindArchiveFilesContainingFingerprint: for each file found, each archive
\* in the order of v.ArchiveFiles, once per entry that is the file
FindArchiveFilesContainingFingerprint(s, a) ==
    LET Hits(file, i) ==
            LET n == Cardinality({e \in 1..Len(s.ArchiveFiles[i].Entries) :
                                    s.ArchiveFiles[i].Entries[e] = file})
            IN  [x \in 1..n |-> i]
        RECURSIVE OfFile(_, _)
        OfFile(file, i) ==
            IF i > Len(s.ArchiveFiles) THEN <<>>
            ELSE Hits(file, i) \o OfFile(file, i + 1)
        RECURSIVE OfFiles(_)
        OfFiles(files) ==
            IF files = <<>> THEN <<>>
            ELSE OfFile(Head(files), 1) \o OfFiles(Tail(files))
    IN  OfFiles(FindFilesWithFingerprint(s, a))

\* FindGitSourcesContainingFingerprint: a fingerprint that is not cached is
\* replaced by the node found under its git-sha; each repo, in the order of
\* v.GitRepoSources, once per file of it whose Fingerprint is the pointer
FindGitSourcesContainingFingerprint(s, a) ==
    LET fp == IF IsCached(Deref(s, a)) THEN a.ptr
              ELSE GetFingerprintByGitSHA(s, Deref(s, a).GitSHA)
        Hits(i) ==
            LET n == Cardinality({f \in 1..Len(s.GitRepoSources[i].Files) :
                        s.Files[s.GitRepoSources[i].Files[f]].Fingerprint = fp})
            IN  [x \in 1..n |-> i]
        RECURSIVE OfRepos(_)
        OfRepos(i) ==
            IF i > Len(s.GitRepoSources) THEN <<>> ELSE Hits(i) \o OfRepos(i + 1)
    IN  IF fp = 0 THEN <<>> ELSE OfRepos(1)

\* Verify: no error is returned (every node's cache id is its position)
Verify(s) ==
    /\ \A i \in 1..Len(s.Fingerprints) : CacheID(s.Fingerprints[i]) = i - 1
    /\ \A i \in 1..Len(s.Files) : CacheID(s.Files[i]) = i - 1
    /\ \A i \in 1..Len(s.ArchiveFiles) : CacheID(s.ArchiveFiles[i]) = i - 1
    /\ \A i \in 1..Len(s.GitRepoSources) : CacheID(s.GitRepoSources[i]) = i - 1

(***************************************************************************)
(* SerializedCache: the store with every pointer replaced by a cache id.   *)
(***************************************************************************)
\* the ids of a list of File pointers: ep.CacheID() for each
FileIDs(s, ptrs) == [ii \in 1..Len(ptrs) |-> CacheID(s.Files[ptrs[ii]])]

\* the File id NewSerializedCache records for an archive, taken from the
\* archive instead of its File
ArchiveFileIDOfArchive(s, a) == CacheID(a)

\* the File id NewSerializedCache records for an archive: a.File.CacheID()
ArchiveFileID(s, a) == CacheID(s.Files[a.File])

\* NewSerializedCache
NewSerializedCache(s) ==
    [Fingerprints |->
        [i \in 1..Len(s.Fingerprints) |-> [ID |-> i - 1, Fingerprint |-> s.Fingerprints[i]]],
     Files |->
        [i \in 1..Len(s.Files) |->
            [ID |-> CacheID(s.Files[i]), Path |-> s.Files[i].Path,
             Fingerprint |-> CacheID(s.Fingerprints[s.Files[i].Fingerprint])]],
     Archives |->
        [i \in 1..Len(s.ArchiveFiles) |->
            [ID |-> i - 1, File |-> ArchiveFileID(s, s.ArchiveFiles[i]),
             Entries |-> FileIDs(s, s.ArchiveFiles[i].Entries)]],
     Repos |->
        [i \in 1..Len(s.GitRepoSources) |->
            [ID |-> 0, Commit |-> s.GitRepoSources[i].Commit,
             Tag |-> s.GitRepoSources[i].Tag, Branch |-> s.GitRepoSources[i].Branch,
             URL |-> s.GitRepoSources[i].URL,
             Files |-> FileIDs(s, s.GitRepoSources[i].Files)]],
     StatCache |->
        [k \in DOMAIN s.statCache |-> CacheID(s.Fingerprints[s.statCache[k]])]]

\* the git-sha index and filter loadSerializedCache builds: every fingerprint
\* is entered under its git-sha in id order, a later one replacing an earlier
RECURSIVE LoadIndex(_, _, _)
LoadIndex(sfs, i, acc) ==
    IF i > Len(sfs) THEN acc
    ELSE LoadIndex(sfs, i + 1,
            [gitSHAIndex |-> MapPut(acc.gitSHAIndex, sfs[i].Fingerprint.GitSHA, i - 1),
             gitSHAFilter |-> FilterAdd(acc.gitSHAFilter, sfs[i].Fingerprint.GitSHA)])

\* the positions of a serialized list whose recorded ID is not the position
Mismatched(list) == {i \in 1..Len(list) : list[i].ID # i - 1}

\* every id a serialized cache refers to names an element of the list it indexes
ReferencesInRange(onDisk) ==
    /\ \A i \in 1..Len(onDisk.Files) :
            onDisk.Files[i].Fingerprint < Len(onDisk.Fingerprints)
    /\ \A i \in 1..Len(onDisk.Archives) :
            /\ onDisk.Archives[i].File < Len(onDisk.Files)
            /\ \A ii \in 1..Len(onDisk.Archives[i].Entries) :
                    onDisk.Archives[i].Entries[ii] < Len(onDisk.Files)
    /\ \A i \in 1..Len(onDisk.Repos) :
            \A ii \in 1..Len(onDisk.Repos[i].Files) :
                    onDisk.Repos[i].Files[ii] < Len(onDisk.Files)
    /\ \A k \in DOMAIN onDisk.StatCache : onDisk.StatCache[k] < Len(onDisk.Fingerprints)

\* loadSerializedCache into the store v that newInMemoryCache returned, for a
\* serialized cache whose references are in range and whose recorded ids are
\* the positions (the call returns nil)
LoadSerializedCache(v, onDisk) ==
    LET ix == LoadIndex(onDisk.Fingerprints, 1,
                        [gitSHAIndex |-> <<>>, gitSHAFilter |-> v.gitSHAFilter])
    IN  [Fingerprints |->
            [i \in 1..Len(onDisk.Fingerprints) |->
                SetCacheID(onDisk.Fingerprints[i].Fingerprint, i - 1)],
         gitSHAIndex |-> ix.gitSHAIndex,
         gitSHAFilter |-> ix.gitSHAFilter,
         Files |->
            [i \in 1..Len(onDisk.Files) |->
                SetCacheID([Path |-> onDisk.Files[i].Path,
                            Fingerprint |-> onDisk.Files[i].Fingerprint + 1,
                            id |-> 0, hasID |-> FALSE], i - 1)],
         ArchiveFiles |->
            [i \in 1..Len(onDisk.Archives) |->
                SetCacheID([File |-> onDisk.Archives[i].File + 1,
                            Entries |-> [ii \in 1..Len(onDisk.Archives[i].Entries) |->
                                            onDisk.Archives[i].Entries[ii] + 1],
                            id |-> 0, hasID |-> FALSE], i - 1)],
         GitRepoSources |->
            [i \in 1..Len(onDisk.Repos) |->
                SetCacheID([Commit |-> onDisk.Repos[i].Commit, Tag |-> onDisk.Repos[i].Tag,
                            Branch |-> onDisk.Repos[i].Branch, URL |-> onDisk.Repos[i].URL,
                            Files |-> [ii \in 1..Len(onDisk.Repos[i].Files) |->
                                            onDisk.Repos[i].Files[ii] + 1],
                            id |-> 0, hasID |-> FALSE], i - 1)],
         statCache |-> [k \in DOMAIN onDisk.StatCache |-> onDisk.StatCache[k] + 1]]

\* the first error loadSerializedCache returns ("" for nil)
LoadError(onDisk) ==
    IF Mismatched(onDisk.Fingerprints) # {} THEN "Mismatched fingerprint id"
    ELSE IF Mismatched(onDisk.Files) # {} THEN "Mismatched file id"
    ELSE IF Mismatched(onDisk.Archives) # {} THEN "Mismatched archive id"
    ELSE ""

(***************************************************************************)
(* Arguments offered to the store.  A caller's fingerprint describes one   *)
(* blob b: every digest it carries is that blob's digest (the number b),   *)
(* and its size is the blob's size or 0 (unknown).  It carries at least    *)
(* one digest.                                                             *)
(***************************************************************************)
Blobs == 1..MaxBlob

\* the size in bytes of blob b
SizeOf(b) == b

\* the digest kinds a caller's fingerprint may carry
InputKinds == {"GitSHA", "MD5", "SHA256"}

FingerprintOf(b, kinds, size) ==
    [ZeroFingerprint EXCEPT
        !.GitSHA = IF "GitSHA" \in kinds THEN b ELSE 0,
        !.MD5    = IF "MD5" \in kinds THEN b ELSE 0,
        !.SHA256 = IF "SHA256" \in kinds THEN b ELSE 0,
        !.Size   = size]

InputFingerprints ==
    UNION {{FingerprintOf(b, kinds, size) :
                kinds \in (SUBSET InputKinds) \ {{}}, size \in {0, SizeOf(b)}} : b \in Blobs}

NoCall == [op |-> "none"]

\* the store NewInMemoryStore returns
SetStoreInit ==
    /\ Fingerprints = <<>>
    /\ gitSHAIndex = <<>>
    /\ gitSHAFilter = {}
    /\ Files = <<>>
    /\ ArchiveFiles = <<>>
    /\ GitRepoSources = <<>>
    /\ statCache = <<>>

\* a file of the working directory that does not exist
NoFile == [exists |-> FALSE, content |-> <<>>]

\* the first scan process, started in a directory without persisted files
FirstSession == [n |-> 1, phase |-> "running", gob |-> NoFile, yaml |-> NoFile]

\* no call of fingerprintPassthrough has been made
NoTee ==
    [phase |-> "idle", runs |-> 0, reader |-> "Reader", R |-> <<>>, failAt |-> 0,
     size |-> 0, stat |-> 0, rd |-> 0, prod |-> "closed", err |-> "none",
     hashed |-> <<>>, future |-> 0, got |-> <<>>, cons |-> "eof"]

\* no archive is being scanned
NoScan ==
    [phase |-> "idle", members |-> <<>>, failAt |-> 0, next |-> 1, sending |-> 0,
     buffer |-> <<>>, done |-> "none", closed |-> FALSE, Entries |-> <<>>,
     pc |-> "select", result |-> "none"]

\* no container is being scanned
NoWalk ==
    [phase |-> "idle", runs |-> 0, container |-> <<>>, stat |-> 0, limit |-> 0,
     stack |-> <<>>, file |-> 0, archive |-> 0, deepest |-> 0, read |-> FALSE]

\* no call of CalculateSums has been made
NoCalc ==
    [phase |-> "idle", runs |-> 0, use |-> "CalculateSums", hashers |-> <<>>,
     data |-> <<>>, size |-> 0, failAt |-> 0, pos |-> 0, err |-> FALSE, closed |-> 0,
     task |-> <<>>, wrapper |-> "none", sent |-> 0, next |-> 1, got |-> <<>>,
     GitSHA |-> 0, MD5 |-> 0]

\* no call of GitRepoSourceFromRef has been made
NoRef ==
    [phase |-> "idle", runs |-> 0, src |-> <<>>, tree |-> <<>>, pos |-> 1,
     blobArgs |-> <<>>, argsClosed |-> FALSE, files |-> <<>>, filesClosed |-> FALSE,
     Files |-> <<>>, ret |-> 0]

\* snapcat has not been started
NoCat ==
    [phase |-> "idle", pass |-> 0, orig |-> <<>>, stream |-> <<>>, asked |-> 0,
     header |-> <<>>, fullInput |-> <<>>, isSnappy |-> FALSE, out |-> <<>>, err |-> FALSE]

\* no BasicHasher has been made.  written: the bytes written so far; task:
\* the goroutine of newBasicHasher; result: wrapper.result (0: not set);
\* doneClosed: whether the channel done is closed; caller: the caller of
\* Digest; snapshot: the result field of the receiver of the Digest call in
\* progress, copied when the method was called; returned: what the calls of
\* Digest have returned
NoHasher ==
    [phase |-> "idle", runs |-> 0, data |-> <<>>, written |-> <<>>, task |-> "none",
     result |-> 0, doneClosed |-> FALSE, caller |-> "idle", calls |-> 0, snapshot |-> 0,
     returned |-> <<>>]

\* the archives and the packages are handled one after the other
Kinds == {"archives", "packages"}

\* ScanAndInventoryPath has not been called.  found: what the walk collected;
\* work, results, size, closed: the two channels of each kind (size is the
\* capacity of results); bar: the goroutine that ranges over results;
\* workers: the deepScanWorker goroutines; wg: the WaitGroup's counter;
\* scanned: the calls of the scan function, in order
NoPool ==
    [phase |-> "idle", pc |-> "none",
     found |-> [k \in Kinds |-> 0],
     work |-> <<>>, workClosed |-> FALSE,
     results |-> [k \in Kinds |-> <<>>],
     size |-> [k \in Kinds |-> 0],
     closed |-> [k \in Kinds |-> FALSE],
     bar |-> [k \in Kinds |-> "none"],
     workers |-> [i \in 1..NumWorkers |-> [pc |-> "none", file |-> 0]],
     wg |-> 0, panic |-> FALSE, scanned |-> <<>>]

\* the store's collections become those of s
SetCollections(s) ==
    /\ Fingerprints' = s.Fingerprints
    /\ gitSHAIndex' = s.gitSHAIndex
    /\ gitSHAFilter' = s.gitSHAFilter
    /\ Files' = s.Files
    /\ ArchiveFiles' = s.ArchiveFiles
    /\ GitRepoSources' = s.GitRepoSources
    /\ statCache' = s.statCache

\* a store operation leaves the store s; the process and its files stay
SetStore(s) ==
    /\ SetCollections(s)
    /\ UNCHANGED <<session, tee, scan, walk, calc, ref, toolVars>>

\* the caps of the model on the store's collections
WithinCaps(s) ==
    /\ Len(s.Fingerprints) <= MaxFingerprints
    /\ Len(s.Files) <= MaxFiles
    /\ Len(s.ArchiveFiles) <= MaxArchives
    /\ Len(s.GitRepoSources) <= MaxRepos

Tasks == 1..NumTasks

\* the four mutexes of the store, all free
FreeLocks == [fingerprints |-> 0, files |-> 0, archives |-> 0, repos |-> 0]

\* a goroutine that has not called the store
NoTopCall ==
    [op |-> "none", arg |-> ZeroFingerprint, fresh |-> FALSE, conc |-> {},
     status |-> "idle", ret |-> 0, appended |-> FALSE, n |-> 0]

\* no goroutine is inside the store
SetConcInit ==
    /\ locks = FreeLocks
    /\ tasks = [t \in Tasks |-> <<>>]
    /\ calls = [t \in Tasks |-> NoTopCall]

Init ==
    /\ SetStoreInit
    /\ session = FirstSession
    /\ tee = NoTee
    /\ scan = NoScan
    /\ walk = NoWalk
    /\ calc = NoCalc
    /\ ref = NoRef
    /\ cat = NoCat
    /\ pool = NoPool
    /\ hasher = NoHasher
    /\ last = NoCall
    /\ SetConcInit

(***************************************************************************)
(* Fingerprint interning, one caller at a time.                            *)
(***************************************************************************)
\* a caller interns a fingerprint it has built
CallPutFingerprint ==
    \E fp \in InputFingerprints :
        LET r == PutFingerprint(Store, FreshArg(fp))
        IN  /\ WithinCaps(r.store)
            /\ SetStore(r.store)
            /\ last' = [op |-> "PutFingerprint", arg |-> fp, ptr |-> 0, ret |-> r.ret,
                        merged |-> r.merged]
            /\ UNCHANGED concVars

\* a caller passes a pointer PutFingerprint returned earlier to PutFingerprint
CallPutFingerprintAgain ==
    \E p \in 1..Len(Fingerprints) :
        LET r == PutFingerprint(Store, InternedArg(p))
        IN  /\ SetStore(r.store)
            /\ last' = [op |-> "PutFingerprint", arg |-> Fingerprints[p], ptr |-> p,
                        ret |-> r.ret, merged |-> r.merged]
            /\ UNCHANGED concVars

\* the git-sha keys a caller may look up
GitSHAKeys == 0..MaxBlob

\* a caller looks a git-sha up
CallGetFingerprintByGitSHA ==
    \E k \in GitSHAKeys :
        /\ UNCHANGED <<storeVars, concVars>>
        /\ last' = [op |-> "GetFingerprintByGitSHA", key |-> k,
                    ret |-> GetFingerprintByGitSHA(Store, k)]

Next ==
    \/ CallPutFingerprint
    \/ CallPutFingerprintAgain
    \/ CallGetFingerprintByGitSHA

Spec == Init /\ [][Next]_vars

(***************************************************************************)
(* The whole graph, one caller at a time, with persist and restore.        *)
(***************************************************************************)
Paths == 1..MaxPath

\* the fingerprints of the files offered to the store: one digest and the size
FileFingerprints ==
    {FingerprintOf(1, {"GitSHA"}, SizeOf(1)), FingerprintOf(MaxBlob, {"MD5"}, SizeOf(MaxBlob))}

\* fingerprint arguments: an interned pointer or a fingerprint out of fps
FingerprintArgs(s, fps) ==
    {InternedArg(p) : p \in 1..Len(s.Fingerprints)} \cup {FreshArg(fp) : fp \in fps}

\* file arguments: an interned pointer or a File the caller has built
FileArgs(s, fps) ==
    {InternedFile(p) : p \in 1..Len(s.Files)}
        \cup {FreshFile(path, a) : path \in Paths, a \in FingerprintArgs(s, fps)}

\* the files of archives and repos offered to the store: an interned pointer
\* or a File built around a fingerprint that has just been calculated
MemberArgs(s, fps) ==
    {InternedFile(p) : p \in 1..Len(s.Files)}
        \cup {FreshFile(path, FreshArg(fp)) : path \in Paths, fp \in fps}

\* the entry lists of archives and the file lists of repos offered to the store
FileLists(s, fps) ==
    UNION {[1..n -> MemberArgs(s, fps)] : n \in 0..MaxEntries}

\* the archives offered to the store
ArchiveArgs(s, fps) ==
    {[File |-> f, Entries |-> es] : f \in MemberArgs(s, fps), es \in FileLists(s, fps)}

\* commit digests, branch names and tag names (sequences of characters)
Commits == {1}
Branches == {<<"a">>}
Tags == {<<":">>}

\* the git repo sources offered to the store
RepoArgs(s, fps) ==
    {[Commit |-> c, Branch |-> b, Tag |-> g, URL |-> "u", Files |-> fs] :
        c \in Commits, b \in Branches, g \in Tags, fs \in FileLists(s, fps)}

StatKeys == 1..MaxStat

\* the fingerprints offered to PutFingerprint: those of the files, and one
\* that carries the git-sha of a blob together with its MD5
GraphFingerprints ==
    FileFingerprints \cup {FingerprintOf(MaxBlob, {"GitSHA", "MD5"}, SizeOf(MaxBlob))}

GraphPutFingerprint ==
    \E a \in FingerprintArgs(Store, GraphFingerprints) :
        LET r == PutFingerprint(Store, a)
        IN  /\ WithinCaps(r.store)
            /\ SetStore(r.store)
            /\ last' = [op |-> "PutFingerprint"]
            /\ UNCHANGED concVars

GraphPutFile ==
    \E fa \in FileArgs(Store, FileFingerprints) :
        LET r == PutFile(Store, fa)
        IN  /\ WithinCaps(r.store)
            /\ SetStore(r.store)
            /\ last' = [op |-> "PutFile"]
            /\ UNCHANGED concVars

GraphPutArchiveFile ==
    \E ar \in ArchiveArgs(Store, FileFingerprints) :
        LET r == PutArchiveFile(Store, ar)
        IN  /\ WithinCaps(r.store)
            /\ SetStore(r.store)
            /\ last' = [op |-> "PutArchiveFile"]
            /\ UNCHANGED concVars

GraphPutGitSource ==
    \E g \in RepoArgs(Store, FileFingerprints) :
        LET r == PutGitSource(Store, g)
        IN  /\ WithinCaps(r.store)
            /\ SetStore(r.store)
            /\ last' = [op |-> "PutGitSource"]
            /\ UNCHANGED concVars

\* a scanner caches the interned fingerprint of a file under the file's stat key
GraphPutStatFingerprint ==
    \E k \in StatKeys, p \in 1..Len(Fingerprints) :
        /\ SetStore(PutStatFingerprint(Store, k, p))
        /\ last' = [op |-> "PutStatFingerprint"]
        /\ UNCHANGED concVars

\* RestoreRememberedObjects of what PersistRememberedObjects wrote: the store
\* is replaced by a new store loaded from the serialized form of this one
Restored(s) ==
    IF Verify(s) /\ LoadError(NewSerializedCache(s)) = ""
    THEN LoadSerializedCache(EmptyStore, NewSerializedCache(s))
    ELSE s

GraphRestore ==
    /\ Verify(Store)
    /\ SetStore(Restored(Store))
    /\ last' = [op |-> "Restore"]
    /\ UNCHANGED concVars

NextGraph ==
    \/ GraphPutFingerprint
    \/ GraphPutFile
    \/ GraphPutArchiveFile
    \/ GraphPutGitSource
    \/ GraphPutStatFingerprint
    \/ GraphRestore

SpecGraph == Init /\ [][NextGraph]_vars

(***************************************************************************)
(* Persisting and restoring across scan processes.  A process restores at  *)
(* its start and persists when it ends (cmd/binprint/hash.go:219-220); the *)
(* files stay in the directory between processes, where they can be        *)
(* damaged.  A holder of a node's pointer can call its exported            *)
(* SetCacheID.                                                             *)
(***************************************************************************)
\* PersistRememberedObjects without the early return on a failed Verify
PersistWithoutVerify(s, ses) ==
    [ses EXCEPT !.gob = [exists |-> TRUE, content |-> NewSerializedCache(s)],
                !.yaml = [exists |-> TRUE, content |-> NewSerializedCache(s)]]

\* PersistRememberedObjects: both files are created and written with the
\* serialized store, unless Verify fails, which returns before any file is
\* created
PersistRememberedObjects(s, ses) ==
    IF ~Verify(s) THEN ses
    ELSE [ses EXCEPT !.gob = [exists |-> TRUE, content |-> NewSerializedCache(s)],
                     !.yaml = [exists |-> TRUE, content |-> NewSerializedCache(s)]]

\* a serialized cache the claim calls inconsistent: a recorded id that is not
\* the position, or a reference to an id that does not exist (the ID of a
\* repo is never written by NewSerializedCache nor read by the load)
Inconsistent(onDisk) ==
    \/ Mismatched(onDisk.Fingerprints) # {}
    \/ Mismatched(onDisk.Files) # {}
    \/ Mismatched(onDisk.Archives) # {}
    \/ ~ReferencesInRange(onDisk)

\* RestoreRememberedObjects (useGob is false: fingerprint.yaml is read).  A
\* missing file returns nil.  loadSerializedCache's error is dropped; where it
\* returned one, the slot of the mismatched element is still nil and Verify
\* dereferences it; a reference that is out of range indexes v.Fingerprints or
\* v.Files beyond its length.  Both are run-time panics, and nothing recovers.
RestoreRememberedObjects(ses) ==
    IF ~ses.yaml.exists THEN [outcome |-> "nil", store |-> EmptyStore]
    ELSE IF LoadError(ses.yaml.content) # "" \/ ~ReferencesInRange(ses.yaml.content)
    THEN [outcome |-> "panic", store |-> EmptyStore]
    ELSE LET cache == LoadSerializedCache(EmptyStore, ses.yaml.content)
         IN  IF Verify(cache) THEN [outcome |-> "store", store |-> cache]
             ELSE [outcome |-> "nil", store |-> EmptyStore]

\* the damaged forms of a serialized cache: one recorded id moved off its
\* position, or one reference moved past the end of the list it indexes
Corruptions(onDisk) ==
    {[onDisk EXCEPT !.Fingerprints[i].ID = @ + 1] : i \in 1..Len(onDisk.Fingerprints)}
        \cup {[onDisk EXCEPT !.Files[i].ID = @ + 1] : i \in 1..Len(onDisk.Files)}
        \cup {[onDisk EXCEPT !.Files[i].Fingerprint = Len(onDisk.Fingerprints)] :
                    i \in 1..Len(onDisk.Files)}

\* the running process interns a fingerprint or a file
SessionPut ==
    /\ session.phase = "running"
    /\ (GraphPutFingerprint \/ GraphPutFile)

\* a holder of an interned fingerprint calls SetCacheID on it
CallerSetCacheID ==
    /\ session.phase = "running"
    /\ \E p \in 1..Len(Fingerprints), id \in 0..(MaxFingerprints - 1) :
            /\ id # CacheID(Fingerprints[p])
            /\ Fingerprints' = [Fingerprints EXCEPT ![p] = SetCacheID(@, id)]
    /\ last' = [op |-> "SetCacheID"]
    /\ UNCHANGED <<gitSHAIndex, gitSHAFilter, Files, ArchiveFiles, GitRepoSources,
                   statCache, session, tee, scan, walk, calc, ref, toolVars,
                   concVars>>

\* the process ends: the deferred PersistRememberedObjects runs
SessionPersist ==
    /\ session.phase = "running"
    /\ session' = [PersistRememberedObjects(Store, session) EXCEPT !.phase = "ended"]
    /\ last' = [op |-> "Persist", verified |-> Verify(Store)]
    /\ UNCHANGED <<Fingerprints, gitSHAIndex, gitSHAFilter, Files, ArchiveFiles,
                   GitRepoSources, statCache, tee, scan, walk, calc, ref, toolVars,
                   concVars>>

\* between two processes fingerprint.yaml is damaged
DamageFile ==
    /\ session.phase = "ended"
    /\ session.yaml.exists
    /\ ~Inconsistent(session.yaml.content)
    /\ \E d \in Corruptions(session.yaml.content) :
            session' = [session EXCEPT !.yaml.content = d]
    /\ last' = [op |-> "Damage"]
    /\ UNCHANGED <<Fingerprints, gitSHAIndex, gitSHAFilter, Files, ArchiveFiles,
                   GitRepoSources, statCache, tee, scan, walk, calc, ref, toolVars,
                   concVars>>

\* the next process starts with the store NewInMemoryStore returns and calls
\* scanner.RestoreRememberedObjects, which replaces that store by the restored
\* one unless nil was returned
SessionRestore ==
    /\ session.phase = "ended"
    /\ session.n < MaxSessions
    /\ LET populated == RestoreRememberedObjects(session)
       IN  /\ SetCollections(populated.store)
           /\ session' = [session EXCEPT !.n = @ + 1,
                             !.phase = IF populated.outcome = "panic" THEN "crashed"
                                       ELSE "running"]
           /\ last' = [op |-> "Restore", outcome |-> populated.outcome,
                       inconsistent |-> session.yaml.exists
                                            /\ Inconsistent(session.yaml.content)]
    /\ UNCHANGED <<tee, scan, walk, calc, ref, toolVars,
                   concVars>>

NextPersist ==
    \/ SessionPut
    \/ CallerSetCacheID
    \/ SessionPersist
    \/ DamageFile
    \/ SessionRestore

SpecPersist == Init /\ [][NextPersist]_vars

(***************************************************************************)
(* The passthrough tee.  fingerprintPassthrough(r, size, stat) starts two  *)
(* goroutines: the producer copies r into two pipes (io.Copy to an         *)
(* io.MultiWriter), the hasher reads the first pipe, interns the           *)
(* fingerprint and sends it on the future; the caller reads the second     *)
(* pipe.  A write on an io.Pipe returns once a reader has taken the data.  *)
(* Bytes move one at a time.  The digest of a byte sequence is a number    *)
(* that no other sequence has, the same number for every kind of digest,   *)
(* as for the blobs of the store.                                          *)
(***************************************************************************)
\* the contents of the readers handed to the tee
Inputs == UNION {[1..n -> {0, 1}] : n \in 0..MaxInput}

RECURSIVE Digest(_)
Digest(bytes) ==
    LET n == Len(bytes)
        h == n \div 2
    IN  IF n = 0 THEN 1
        ELSE IF n = 1 THEN 2 + bytes[1]
        ELSE Digest(SubSeq(bytes, 1, h)) * 2 ^ (n - h)
                + Digest(SubSeq(bytes, h + 1, n)) - 2 ^ (n - h)

\* new(Fingerprint).CalculateSums(data, size) for data that ends with EOF:
\* Size is the declared size and every hasher's digest is stored.  The git
\* hasher is created with the declared size; its Done() hands over nil when
\* the bytes hashed are not that many, and the type switch stores nothing
\* for nil, so GitSHA stays zero
CalculateSums(data, size) ==
    [k \in DOMAIN ZeroFingerprint |->
        IF k = "Size" THEN size
        ELSE IF k = "GitSHA" /\ size # Len(data) THEN 0
        ELSE IF k \in DigestKinds THEN Digest(data)
        ELSE ZeroFingerprint[k]]

\* fingerprintPassthrough up to its return, for a reader of dynamic type
\* `reader` that yields the bytes R and then EOF, or an error after failAt
\* bytes (never, if failAt > Len(R)).  The type assertion r.(passthroughHasher)
\* holds for the struct type only; what the function returns is a pointer to
\* the struct.
fingerprintPassthrough(s, runs, reader, R, failAt, size, stat) ==
    LET call == [NoTee EXCEPT !.runs = runs + 1, !.reader = reader, !.R = R,
                              !.failAt = failAt, !.size = size, !.stat = stat]
    IN  IF reader = "passthroughHasher"
        THEN [call EXCEPT !.phase = "panicked"]
        ELSE IF stat # 0 /\ GetStatFingerprint(s, stat) # 0
        THEN [call EXCEPT !.phase = "hit", !.future = GetStatFingerprint(s, stat),
                          !.cons = "reading"]
        ELSE [call EXCEPT !.phase = "running", !.prod = "read", !.cons = "reading"]

\* the tee becomes next; the store and everything else stay
TeeBecomes(next) ==
    /\ tee' = next
    /\ UNCHANGED <<Fingerprints, gitSHAIndex, gitSHAFilter, Files, ArchiveFiles,
                   GitRepoSources, statCache, session, scan, walk, calc, ref, toolVars,
                   last, concVars>>

\* a scanner calls fingerprintPassthrough, once the call before has resolved
\* its future and its reader has been read to the end: on a reader of its own
\* or on the reader an earlier call returned; the declared size is the length
\* of the input, and stat, if given, is that of the file that holds the input
TeeCall ==
    /\ tee.runs < MaxRuns
    /\ tee.phase = "idle" \/ (tee.future # 0 /\ tee.cons \in {"eof", "error"})
    /\ \E R \in Inputs, failAt \in 0..(MaxInput + 1), stat \in {0, 1},
          reader \in {"Reader", "*passthroughHasher"} :
            /\ failAt <= Len(R) \/ failAt = MaxInput + 1
            /\ reader = "*passthroughHasher" => tee.phase = "running"
            /\ TeeBecomes(fingerprintPassthrough(Store, tee.runs, reader, R, failAt,
                                                 Len(R), stat * Digest(R)))

\* the producer goroutine: io.Copy reads r; at EOF or at an error (which is
\* logged) the deferred Close of both pipe writers runs
TeeProducer ==
    /\ tee.phase = "running"
    /\ tee.prod = "read"
    /\ TeeBecomes(IF tee.rd = tee.failAt THEN [tee EXCEPT !.prod = "closed", !.err = "read"]
                  ELSE IF tee.rd = Len(tee.R) THEN [tee EXCEPT !.prod = "closed"]
                  ELSE [tee EXCEPT !.rd = @ + 1, !.prod = "toHash"])

\* the hasher goroutine: CalculateSums takes what the producer writes to the
\* hash pipe; at EOF it returns, the fingerprint is interned (and entered in
\* the stat cache) and sent on the future
TeeHasher ==
    /\ tee.phase = "running"
    /\ \/ /\ tee.prod = "toHash"
          /\ TeeBecomes([tee EXCEPT !.hashed = Append(@, tee.R[tee.rd]), !.prod = "toWrap"])
       \/ /\ tee.prod = "closed"
          /\ tee.future = 0
          /\ LET r == PutFingerprint(Store, FreshArg(CalculateSums(tee.hashed, tee.size)))
             IN  /\ SetCollections(IF tee.stat = 0 THEN r.store
                                   ELSE PutStatFingerprint(r.store, tee.stat, r.ret))
                 /\ tee' = [tee EXCEPT !.future = r.ret]
          /\ UNCHANGED <<session, scan, walk, calc, ref, toolVars,
                   last, concVars>>

\* the caller reads the reader it was given: the pipe, which yields what the
\* producer writes and EOF once the writer is closed, or on a stat-cache hit
\* r itself
TeeConsumerRead ==
    /\ tee.cons = "reading"
    /\ IF tee.phase = "hit"
       THEN TeeBecomes(IF Len(tee.got) = tee.failAt THEN [tee EXCEPT !.cons = "error"]
                       ELSE IF Len(tee.got) = Len(tee.R) THEN [tee EXCEPT !.cons = "eof"]
                       ELSE [tee EXCEPT !.got = Append(@, tee.R[Len(tee.got) + 1])])
       ELSE /\ tee.prod \in {"toWrap", "closed"}
            /\ TeeBecomes(IF tee.prod = "closed" THEN [tee EXCEPT !.cons = "eof"]
                          ELSE [tee EXCEPT !.got = Append(@, tee.R[tee.rd]),
                                           !.prod = "read"])

\* the caller gives up reading (a scanner returns on an error of the archive
\* format without reading on)
TeeConsumerStop ==
    /\ tee.cons = "reading"
    /\ TeeBecomes([tee EXCEPT !.cons = "stopped"])

\* another scanner interns a digest it has found recorded for a blob, without
\* a size, while no tee runs
OtherScannerPut ==
    /\ tee.phase = "idle"
    /\ \E b \in Blobs, k \in {"MD5", "SHA256"} :
          LET r == PutFingerprint(Store, FreshArg(FingerprintOf(b, {k}, 0)))
          IN  /\ Len(r.store.Fingerprints) <= 1
              /\ SetStore(r.store)
    /\ last' = [op |-> "PutFingerprint"]
    /\ UNCHANGED concVars

NextTee ==
    \/ OtherScannerPut
    \/ TeeCall
    \/ TeeProducer
    \/ TeeHasher
    \/ TeeConsumerRead
    \/ TeeConsumerStop

SpecTee == Init /\ [][NextTee]_vars

\* the two goroutines of the tee run whenever they can; the caller may not
SpecTeeFair == SpecTee /\ WF_vars(TeeProducer) /\ WF_vars(TeeHasher)

(***************************************************************************)
(* Archive scanners.  scanTarStream, scanCPIOStream, scanARStream and      *)
(* scanZip have one shape: a goroutine traverses the archive and sends     *)
(* each entry it has fingerprinted on the channel entries, then nil or an  *)
(* error on the channel done; the caller selects on both and appends what  *)
(* it receives to archive.Entries.  Both channels are made without a       *)
(* buffer: a send returns once the value has been received.  A member is   *)
(* the file fingerprintArchiveEntry returned for it (a pointer, 1 or 2),   *)
(* or 0 where it returned nil.                                             *)
(***************************************************************************)
\* `entries <- entry` with a channel that buffers what is sent
SendBuffered(sc, entry) == [sc EXCEPT !.buffer = Append(@, entry)]

\* `entries <- entry`: the goroutine waits with the entry in its hands
SendEntry(sc, entry) == [sc EXCEPT !.sending = entry]

\* the scan becomes next; everything else stays
ScanBecomes(next) ==
    /\ scan' = next
    /\ UNCHANGED <<Fingerprints, gitSHAIndex, gitSHAFilter, Files, ArchiveFiles,
                   GitRepoSources, statCache, session, tee, walk, calc, ref, toolVars,
                   last, concVars>>

\* a scanner is called on an archive whose traversal meets the given members
\* and then the end of the archive, or an error after failAt members (never,
\* if failAt > Len(members))
ScanCall ==
    /\ scan.phase = "idle"
    /\ \E members \in UNION {[1..n -> 0..2] : n \in 0..MaxMembers},
          failAt \in 0..(MaxMembers + 1) :
            /\ failAt <= Len(members) \/ failAt = MaxMembers + 1
            /\ ScanBecomes([NoScan EXCEPT !.phase = "running", !.members = members,
                                          !.failAt = failAt])

\* the goroutine: the next header, an entry sent, nil or the error sent on
\* done, and after that the deferred close of both channels
ScanProducer ==
    /\ scan.phase = "running"
    /\ scan.sending = 0
    /\ ~scan.closed
    /\ scan.done \in {"none", "received"}
    /\ ScanBecomes(
          IF scan.done = "received" THEN [scan EXCEPT !.closed = TRUE]
          ELSE IF scan.next - 1 = scan.failAt THEN [scan EXCEPT !.done = "err"]
          ELSE IF scan.next > Len(scan.members) THEN [scan EXCEPT !.done = "nil"]
          ELSE IF scan.members[scan.next] = 0 THEN [scan EXCEPT !.next = @ + 1]
          ELSE SendEntry([scan EXCEPT !.next = @ + 1], scan.members[scan.next]))

\* the caller: the select of readLoop, which takes either channel that is
\* ready; after an error on done it ranges over entries until they are closed
\* and returns nil, after nil on done it leaves the loop with archive.Entries
ScanConsumer ==
    /\ scan.phase = "running"
    /\ \/ /\ scan.pc = "select"
          /\ scan.buffer # <<>> \/ scan.sending # 0
          /\ ScanBecomes(IF scan.buffer # <<>>
                         THEN [scan EXCEPT !.Entries = Append(@, Head(scan.buffer)),
                                           !.buffer = Tail(@)]
                         ELSE [scan EXCEPT !.Entries = Append(@, scan.sending),
                                           !.sending = 0])
       \/ /\ scan.pc = "select"
          /\ scan.done \in {"nil", "err"}
          /\ ScanBecomes(IF scan.done = "err"
                         THEN [scan EXCEPT !.done = "received", !.pc = "drain"]
                         ELSE [scan EXCEPT !.done = "received", !.pc = "finished",
                                           !.result = "archive"])
       \/ /\ scan.pc = "drain"
          /\ scan.buffer # <<>> \/ scan.closed
          /\ ScanBecomes(IF scan.buffer # <<>> THEN [scan EXCEPT !.buffer = Tail(@)]
                         ELSE [scan EXCEPT !.pc = "finished", !.result = "nil"])

NextScan ==
    \/ ScanCall
    \/ ScanProducer
    \/ ScanConsumer

SpecScan == Init /\ [][NextScan]_vars

(***************************************************************************)
(* Recursive scans.  A container is what a scanner's traversal meets: its  *)
(* entries in order (blobs, directories, nested archives) and then the end *)
(* of the archive, or (bad) an error of the traversal after the entries.   *)
(* Each call of IdentifyArchiveContents in progress is a frame of          *)
(* walk.stack, the innermost first; a step is one entry of the innermost   *)
(* traversal, or its end.  The container's own fingerprint is interned     *)
(* by the passthrough once its stream has been read to the end.            *)
(***************************************************************************)
Blob(path, bit) ==
    [kind |-> "blob", path |-> path, data |-> <<bit>>, entries |-> <<>>, bad |-> FALSE]
Dir == [kind |-> "dir", path |-> 0, data |-> <<>>, entries |-> <<>>, bad |-> FALSE]
Archive(entries, bad) ==
    [kind |-> "archive", path |-> MaxPath + 1, data |-> <<>>, entries |-> entries,
     bad |-> bad]

\* the byte stream of an entry inside its container: three bits per header,
\* a blob's header holding its name and its one byte of content
RECURSIVE Bytes(_)
Bytes(t) ==
    LET RECURSIVE All(_)
        All(es) == IF es = <<>> THEN <<>> ELSE Bytes(Head(es)) \o All(Tail(es))
    IN  IF t.kind = "blob" THEN <<1, t.path - 1, t.data[1]>>
        ELSE IF t.kind = "dir" THEN <<0, 1, 0>>
        ELSE <<0, 1, 1>> \o All(t.entries) \o <<0, 0, IF t.bad THEN 1 ELSE 0>>

\* IdentifyArchiveContents without the look into the stat-cache: the container
\* is opened and traversed whatever is known about it
IdentifyArchiveContentsRescan(s, w, c, stat, depth, limit) ==
    [w EXCEPT !.phase = "running", !.read = TRUE,
              !.deepest = IF depth > @ THEN depth ELSE @,
              !.stack = <<[c |-> c, i |-> 1, Entries |-> <<>>, depth |-> depth,
                           stat |-> stat]>> \o @]

\* IdentifyArchiveContents(fileName, size, stat, archiveBody, depth, limit) up
\* to the call of the scanner (stat 0 for nil): the ArchiveFile of a File with
\* the fingerprint cached for the stat is returned at once; else the
\* container c is opened and its traversal starts
IdentifyArchiveContents(s, w, c, stat, depth, limit) ==
    LET fp == IF stat = 0 THEN 0 ELSE GetStatFingerprint(s, stat)
        hits == IF fp = 0 THEN <<>>
                ELSE SelectSeq(FindFilesWithFingerprint(s, InternedArg(fp)),
                               LAMBDA f : ScanArchives(s, f) # 0)
    IN  IF hits # <<>>
        THEN [w EXCEPT !.phase = "done", !.file = 0, !.read = FALSE,
                       !.archive = ScanArchives(s, Head(hits))]
        ELSE [w EXCEPT !.phase = "running", !.read = TRUE,
                       !.deepest = IF depth > @ THEN depth ELSE @,
                       !.stack = <<[c |-> c, i |-> 1, Entries |-> <<>>, depth |-> depth,
                                    stat |-> stat]>> \o @]

\* fingerprintArchiveEntry that appends the sums as a new node and a new File
\* for it, without looking for an interned fingerprint or file
fingerprintArchiveEntryUninterned(s, e) ==
    LET id == Len(s.Fingerprints)
        fp == SetCacheID(CalculateSums(e.data, Len(e.data)), id)
    IN  AppendFile([s EXCEPT !.Fingerprints = Append(@, fp)], e.path, id + 1)

\* fingerprintArchiveEntry for an entry whose name is not that of an archive
\* or a package: the File interned for its sums
fingerprintArchiveEntry(s, e) ==
    LET fp == PutFingerprint(s, FreshArg(CalculateSums(e.data, Len(e.data))))
    IN  PutFile(fp.store, FreshFile(e.path, InternedArg(fp.ret)))

\* the end of scanTarStream and its like, and of IdentifyArchiveContents: nil
\* after an error of the traversal; else the container's fingerprint (the one
\* cached for the stat, or the one the passthrough interns and caches), its
\* File, the ArchiveFile, and the stat-cache entry
scanStreamEnd(s, fr) ==
    LET Sums(bytes) == CalculateSums(bytes, Len(bytes))
        Cached(new) ==
            IF fr.stat = 0 THEN new
            ELSE [new EXCEPT !.store = PutStatFingerprint(new.store, fr.stat, new.ret)]
        Passthrough(cfp) ==
            IF cfp # 0 THEN [store |-> s, ret |-> cfp]
            ELSE Cached(PutFingerprint(s, FreshArg(Sums(Bytes(fr.c)))))
        File(fp) == PutFile(fp.store, FreshFile(fr.c.path, InternedArg(fp.ret)))
        Returned(f, a) ==
            [store |-> IF fr.stat = 0 THEN a.store
                       ELSE PutStatFingerprint(a.store, fr.stat,
                                               a.store.Files[f.ret].Fingerprint),
             file |-> f.ret, archive |-> a.ret]
        Remembered(f) ==
            Returned(f, PutArchiveFile(f.store,
                 [File |-> InternedFile(f.ret),
                  Entries |-> [i \in 1..Len(fr.Entries) |-> InternedFile(fr.Entries[i])]]))
    IN  IF fr.c.bad THEN [store |-> s, file |-> 0, archive |-> 0]
        ELSE Remembered(File(Passthrough(IF fr.stat = 0 THEN 0
                                         ELSE GetStatFingerprint(s, fr.stat))))

\* what an archive may hold besides nested containers
Leaves ==
    {Blob(1, 0), Blob(MaxPath, 0), Blob(1, 1), Dir,
     Archive(<<>>, FALSE), Archive(<<>>, TRUE)}

\* the containers scanned: an archive of some leaves, or an archive of at most
\* one leaf inside up to MaxNest archives that hold nothing else
Containers ==
    LET Flat(n) == {Archive(es, bad) : es \in UNION {[1..k -> Leaves] : k \in 0..n},
                                       bad \in BOOLEAN}
        RECURSIVE Nested(_)
        Nested(k) == IF k = 0 THEN Flat(1)
                     ELSE {Archive(<<t>>, FALSE) : t \in Nested(k - 1)}
    IN  Flat(MaxLeaves) \cup UNION {Nested(k) : k \in 1..MaxNest}

\* the walk becomes next and the store that of s
WalkBecomes(s, next) ==
    /\ SetCollections(s)
    /\ walk' = next
    /\ UNCHANGED <<session, tee, scan, calc, ref, toolVars, last, concVars>>

\* deepScanWorker: scan(file.Path, file.Stat.Size(), file.Stat, nil, 0, limit)
\* for a file of the inventory
DeepCall ==
    /\ walk.phase \in {"idle", "done"}
    /\ walk.runs < MaxScans
    /\ \E c \in Containers, stat \in {0} \cup StatKeys :
          WalkBecomes(Store,
              IdentifyArchiveContents(Store,
                  [NoWalk EXCEPT !.runs = walk.runs + 1, !.container = c,
                                 !.stat = stat, !.limit = ScanLimit],
                  [c EXCEPT !.path = MaxPath + 2], stat, 0, ScanLimit))

\* the scanner's goroutine at an entry: a directory is skipped; the name of
\* an archive makes fingerprintArchiveEntry call IdentifyArchiveContents with
\* depth + 1; any other entry is fingerprinted, sent and appended
DeepEntry ==
    /\ walk.phase = "running"
    /\ LET fr == Head(walk.stack)
           e == fr.c.entries[fr.i]
           on == [walk EXCEPT !.stack[1].i = @ + 1]
           f == fingerprintArchiveEntry(Store, e)
       IN  /\ fr.i <= Len(fr.c.entries)
           /\ IF e.kind = "dir" THEN WalkBecomes(Store, on)
              ELSE IF e.kind = "archive"
              THEN WalkBecomes(Store, IdentifyArchiveContents(Store, on, e, 0,
                                                            fr.depth + 1, walk.limit))
              ELSE WalkBecomes(f.store, [on EXCEPT !.stack[1].Entries = Append(@, f.ret)])

\* the end of a traversal: the scanner returns; a nested scan's File is the
\* entry its caller sends on, unless it is nil
DeepReturn ==
    /\ walk.phase = "running"
    /\ LET fr == Head(walk.stack)
           r == scanStreamEnd(Store, fr)
           out == [walk EXCEPT !.stack = Tail(@)]
       IN  /\ fr.i > Len(fr.c.entries)
           /\ WalkBecomes(r.store,
                 IF Tail(walk.stack) = <<>>
                 THEN [out EXCEPT !.phase = "done", !.file = r.file,
                                  !.archive = r.archive]
                 ELSE IF r.file = 0 THEN out
                 ELSE [out EXCEPT !.stack[1].Entries = Append(@, r.file)])

NextDeep ==
    \/ DeepCall
    \/ DeepEntry
    \/ DeepReturn

SpecDeep == Init /\ [][NextDeep]_vars

(***************************************************************************)
(* Asynchronous hashers.  newBasicHasher starts a goroutine that copies    *)
(* the hasher's pipe into its hash.Hash until the pipe is closed, records  *)
(* bytesHashed and result, and sends result on the channel done, which has *)
(* no buffer.  A write on the pipe returns once the goroutine has read it, *)
(* so a byte written is a byte hashed.  GitShaHasher embeds BasicHasher    *)
(* and declares Done of its own; Digest is the method of BasicHasher.      *)
(* CalculateSums is run here for a Fingerprint whose GitSHA and MD5 are    *)
(* zero and whose other digests are set.                                   *)
(***************************************************************************)
\* the Sum of a git hasher created with the size and fed the bytes: the
\* git-sha of the bytes if the header holds their length
RawGitSHA(size, bytes) ==
    IF size = Len(bytes) THEN Digest(bytes)
    ELSE Digest(bytes) + Digest([i \in 1..(MaxInput + 1) |-> 0])

\* the hashers of a call: kind by position
Hashers(use) == IF use = "CalculateSums" THEN <<"git", "md5">> ELSE <<"git">>

\* wrapper.result of hasher h once its goroutine has left io.Copy
Result(c, h) ==
    IF c.hashers[h] = "git" THEN RawGitSHA(c.size, SubSeq(c.data, 1, c.pos))
    ELSE Digest(SubSeq(c.data, 1, c.pos))

\* what the goroutine of GitShaHasher.Done sends after it has received the
\* result: nil (0) if bytesHashed is not the declared size
GitShaHasherDone(c, h) == IF c.pos # c.size THEN 0 ELSE Result(c, h)

\* the channel the caller harvests hasher h from: h.Done() in CalculateSums
\* dispatches on the dynamic type, sh.Done() in BasicHasher.Digest is the
\* method of BasicHasher
Harvested(c, h) ==
    IF c.use = "CalculateSums" /\ c.hashers[h] = "git" THEN "maybeDigest" ELSE "done"

\* the loop over the hashers after an error of the copy, leaving without the
\* receive
ReceivesNothingOnError(c) == ~c.err

\* the loop over the hashers: `<-h.Done()` is evaluated whether or not the
\* copy returned an error
Receives(c) == TRUE

\* the call becomes next; everything else stays
CalcBecomes(next) ==
    /\ calc' = next
    /\ UNCHANGED <<Fingerprints, gitSHAIndex, gitSHAFilter, Files, ArchiveFiles,
                   GitRepoSources, statCache, session, tee, scan, walk, ref, toolVars, last,
                   concVars>>

\* new(Fingerprint).CalculateSums(data, size), or mustHash("git", path) for
\* a file whose stat gave size: the hashers are created, their goroutines
\* started.  The reader yields data and EOF, or an error after failAt bytes
\* (never, if failAt > Len(data))
HashCall ==
    /\ calc.phase \in {"idle", "returned", "exited"}
    /\ calc.runs < MaxRuns
    /\ \E use \in {"CalculateSums", "mustHash"}, data \in Inputs, size \in 0..MaxInput,
          failAt \in 0..(MaxInput + 1) :
            /\ failAt < Len(data) \/ failAt = MaxInput + 1
            /\ CalcBecomes([NoCalc EXCEPT
                    !.phase = "copying", !.runs = calc.runs + 1, !.use = use,
                    !.hashers = Hashers(use), !.data = data, !.size = size,
                    !.failAt = failAt,
                    !.task = [h \in 1..Len(Hashers(use)) |-> "copying"]])

\* io.Copy(io.MultiWriter(writers...), data): a byte read is written to
\* every hasher in turn; EOF ends the copy, an error ends it with err
\* (mustCopy then exits the process)
HashCopy ==
    /\ calc.phase = "copying"
    /\ CalcBecomes(IF calc.pos = calc.failAt
                   THEN [calc EXCEPT !.err = TRUE,
                                     !.phase = IF calc.use = "mustHash" THEN "exited"
                                               ELSE "closing"]
                   ELSE IF calc.pos = Len(calc.data)
                   THEN [calc EXCEPT !.phase = "closing"]
                   ELSE [calc EXCEPT !.pos = @ + 1])

\* h.Close() for the next hasher; after the last one the caller turns to the
\* results
HashClose ==
    /\ calc.phase = "closing"
    /\ CalcBecomes(IF calc.closed < Len(calc.hashers)
                   THEN [calc EXCEPT !.closed = @ + 1]
                   ELSE [calc EXCEPT !.phase = "collecting"])

\* the goroutine of a hasher whose pipe is closed: io.Copy returns,
\* bytesHashed and result are set, and it waits to send result on done
HasherFinish ==
    \E h \in 1..Len(calc.task) :
        /\ calc.phase \in {"closing", "collecting"}
        /\ calc.task[h] = "copying"
        /\ h <= calc.closed
        /\ CalcBecomes([calc EXCEPT !.task[h] = "sending"])

\* GitShaHasher.Done: the channel maybeDigest is made and a goroutine started
\* that receives from gh.done and sends nil or the result
GitDone ==
    /\ calc.phase = "collecting"
    /\ calc.next <= Len(calc.hashers)
    /\ Harvested(calc, calc.next) = "maybeDigest"
    /\ calc.wrapper \in {"none", "waiting"}
    /\ \/ /\ calc.wrapper = "none"
          /\ Receives(calc)
          /\ CalcBecomes([calc EXCEPT !.wrapper = "waiting"])
       \/ /\ calc.wrapper = "waiting"
          /\ calc.task[calc.next] = "sending"
          /\ CalcBecomes([calc EXCEPT !.wrapper = "sending", !.task[calc.next] = "exited",
                                      !.sent = GitShaHasherDone(calc, calc.next)])

\* the caller receives the result of the next hasher from the channel it
\* harvests; CalculateSums stores it unless the copy failed or it is nil
HashCollect ==
    /\ calc.phase = "collecting"
    /\ calc.next <= Len(calc.hashers)
    /\ Receives(calc)
    /\ LET h == calc.next
           d == IF Harvested(calc, h) = "done" THEN Result(calc, h) ELSE calc.sent
           kind == calc.hashers[h]
           stored == IF calc.err /\ calc.use = "CalculateSums" THEN 0 ELSE d
       IN  /\ IF Harvested(calc, h) = "done" THEN calc.task[h] = "sending"
              ELSE calc.wrapper = "sending"
           /\ CalcBecomes([calc EXCEPT
                  !.task[h] = "exited",
                  !.wrapper = IF Harvested(calc, h) = "done" THEN @ ELSE "exited",
                  !.got = Append(@, d), !.next = @ + 1,
                  !.GitSHA = IF kind = "git" THEN stored ELSE @,
                  !.MD5 = IF kind = "md5" THEN stored ELSE @])

\* the loop over the hashers is over: CalculateSums returns err, mustHash
\* returns the digest
HashReturn ==
    /\ calc.phase = "collecting"
    /\ calc.next > Len(calc.hashers) \/ ~Receives(calc)
    /\ CalcBecomes([calc EXCEPT !.phase = "returned"])

NextHash ==
    \/ HashCall
    \/ HashCopy
    \/ HashClose
    \/ HasherFinish
    \/ GitDone
    \/ HashCollect
    \/ HashReturn

SpecHash == Init /\ [][NextHash]_vars

\* the caller and the goroutines run whenever they can
SpecHashFair ==
    /\ SpecHash
    /\ WF_vars(HashCopy) /\ WF_vars(HashClose) /\ WF_vars(HasherFinish)
    /\ WF_vars(GitDone) /\ WF_vars(HashCollect) /\ WF_vars(HashReturn)

(***************************************************************************)
(* Git tree scans.  GitRepoSourceFromRef walks the tree of a ref in one    *)
(* goroutine, which sends the File of a blob whose git-sha is interned     *)
(* straight to the channel `files` and queues any other blob on the        *)
(* channel `blobArgs`; a second goroutine reads and hashes the queued      *)
(* blobs and sends their Files to `files`, which it closes after blobArgs  *)
(* is closed and drained.  The caller appends what it receives to          *)
(* src.Files.  Both channels have room for every blob of the tree, so no   *)
(* send blocks.                                                            *)
(***************************************************************************)
\* the blob id of a blob: the git-sha of its contents
Oid(b) == CalculateSums(b.data, Len(b.data)).GitSHA

\* the trees walked: up to MaxTree blobs, in traversal order, at different
\* paths
Trees ==
    LET blobs == {Blob(path, bit) : path \in 1..MaxPath, bit \in {0, 1}}
    IN  {t \in UNION {[1..n -> blobs] : n \in 1..MaxTree} :
            \A i, j \in 1..Len(t) : i # j => t[i].path # t[j].path}

\* FileFromExistingBlob: nil (0) without an interned fingerprint of the blob
\* id; else the first interned file with the name and the git-sha, or a new
\* File of the interned fingerprint
FileFromExistingBlob(s, name, oid) ==
    LET existingFingerprint == GetFingerprintByGitSHA(s, oid)
        M == {i \in 1..Len(s.Files) :
                /\ s.Files[i].Path = name
                /\ s.Fingerprints[s.Files[i].Fingerprint].GitSHA = oid}
    IN  IF existingFingerprint = 0 THEN [store |-> s, ret |-> 0]
        ELSE IF M # {} THEN [store |-> s, ret |-> Min(M)]
        ELSE PutFile(s, FreshFile(name, InternedArg(existingFingerprint)))

\* FileFromBlob: the sums of the blob's contents are calculated into the
\* interned fingerprint of the blob id, or into a new one, and the File is
\* interned
FileFromBlob(s, name, b) ==
    LET fp == GetFingerprintByGitSHA(s, Oid(b))
        sums == CalculateSums(b.data, Len(b.data))
    IN  IF fp = 0 THEN PutFile(s, FreshFile(name, FreshArg(sums)))
        ELSE PutFile([s EXCEPT !.Fingerprints[fp] =
                            [sums EXCEPT !.id = s.Fingerprints[fp].id,
                                         !.hasID = s.Fingerprints[fp].hasID]],
                     FreshFile(name, InternedArg(fp)))

RefBecomes(s, next) ==
    /\ SetCollections(s)
    /\ ref' = next
    /\ UNCHANGED <<session, tee, scan, walk, calc, toolVars, last, concVars>>

\* GitRepoSourceFromRef up to the start of the two goroutines: a source with
\* the URN of the ref's commit that is interned already is returned as it is
RefCall ==
    /\ ref.phase \in {"idle", "existing", "returned"}
    /\ ref.runs < MaxRefs
    /\ \E c \in 1..MaxRefs, t \in Trees :
          LET src == [Commit |-> c, Branch |-> <<"a">>, Tag |-> <<>>, URL |-> "",
                      Files |-> <<>>]
              existing == ScanRepos(Store, src)
          IN  RefBecomes(Store,
                  IF existing # 0
                  THEN [NoRef EXCEPT !.runs = ref.runs + 1, !.phase = "existing",
                                     !.src = src, !.ret = existing]
                  ELSE [NoRef EXCEPT !.runs = ref.runs + 1, !.phase = "running",
                                     !.src = src, !.tree = t])

\* the callback of tree.Walk at a blob: fast path or queue
TreeWalk ==
    /\ ref.phase = "running"
    /\ ref.pos <= Len(ref.tree)
    /\ LET b == ref.tree[ref.pos]
           file == FileFromExistingBlob(Store, b.path, Oid(b))
       IN  IF file.ret # 0
           THEN RefBecomes(file.store, [ref EXCEPT !.pos = @ + 1,
                                                   !.files = Append(@, file.ret)])
           ELSE RefBecomes(Store, [ref EXCEPT !.pos = @ + 1,
                                              !.blobArgs = Append(@, b)])

\* the walk is over: close(blobArgs)
TreeWalkEnd ==
    /\ ref.phase = "running"
    /\ ref.pos = Len(ref.tree) + 1
    /\ ~ref.argsClosed
    /\ RefBecomes(Store, [ref EXCEPT !.argsClosed = TRUE])

\* the second goroutine takes a queued blob: files <- FileFromBlob(...)
ConvertBlob ==
    /\ ref.phase = "running"
    /\ ref.blobArgs # <<>>
    /\ LET b == Head(ref.blobArgs)
           file == FileFromBlob(Store, b.path, b)
       IN  RefBecomes(file.store, [ref EXCEPT !.blobArgs = Tail(@),
                                              !.files = Append(@, file.ret)])

\* blobArgs is closed and empty: close(files)
ConvertEnd ==
    /\ ref.phase = "running"
    /\ ref.blobArgs = <<>>
    /\ ref.argsClosed
    /\ ~ref.filesClosed
    /\ RefBecomes(Store, [ref EXCEPT !.filesClosed = TRUE])

\* the caller's loop over the channel: src.RecordBlob(file)
RecordBlob ==
    /\ ref.phase = "running"
    /\ ref.files # <<>>
    /\ RefBecomes(Store, [ref EXCEPT !.files = Tail(@),
                                     !.Files = Append(@, Head(ref.files))])

\* the channel is closed and empty: return cache.PutGitSource(src)
RefReturn ==
    /\ ref.phase = "running"
    /\ ref.files = <<>>
    /\ ref.filesClosed
    /\ LET r == PutGitSource(Store,
                    [ref.src EXCEPT !.Files =
                        [i \in 1..Len(ref.Files) |-> InternedFile(ref.Files[i])]])
       IN  RefBecomes(r.store, [ref EXCEPT !.phase = "returned", !.ret = r.ret])

NextTree ==
    \/ RefCall
    \/ TreeWalk
    \/ TreeWalkEnd
    \/ ConvertBlob
    \/ ConvertEnd
    \/ RecordBlob
    \/ RefReturn

SpecTree == Init /\ [][NextTree]_vars

(***************************************************************************)
(* snapcat.  A stream is a sequence of bytes; the Snappy stream magic is   *)
(* modelled by a magic of MagicLen bytes.  The Snappy writer frames what   *)
(* it is given as the magic and one chunk (a length and the data) and      *)
(* writes nothing when it is given nothing; the Snappy reader takes the    *)
(* magic and the chunks apart again and fails on anything else.  A Read    *)
(* of an io.Reader may return fewer bytes than asked for although more     *)
(* are to come: bytes.Buffer never does, a pipe or a socket may.           *)
(***************************************************************************)
snappyMagic == [i \in 1..MagicLen |-> IF i = 1 THEN 1 ELSE 0]

\* the inputs of snapcat
CatInputs == UNION {[1..n -> {0, 1}] : n \in 0..MaxCat}

\* what input.Read(header) may return for a buffer of `length` bytes
ReadSizes(input, length) ==
    IF length = 0 \/ input = <<>> THEN {0}
    ELSE 1..(IF length < Len(input) THEN length ELSE Len(input))

\* Peek, when the Read returns n bytes: the header and the contents of the
\* MultiReader of the header and what the input still holds
Peek(input, length, n) ==
    [header |-> SubSeq(input, 1, n),
     fullInput |-> SubSeq(input, 1, n) \o SubSeq(input, n + 1, Len(input))]

\* IsSnappy: Peek for the length of the magic, and the comparison
IsSnappy(input, n) ==
    LET p == Peek(input, Len(snappyMagic), n)
    IN  [input |-> p.fullInput, header |-> p.header, isSnappy |-> p.header = snappyMagic]

\* io.Copy into snappy.NewBufferedWriter, then Close
Compress(data) ==
    IF data = <<>> THEN <<>> ELSE snappyMagic \o <<Len(data)>> \o data

\* io.Copy from snappy.NewReader: the data of the chunks after the magic,
\* and whether the stream was corrupt
RECURSIVE Chunks(_)
Chunks(s) ==
    IF s = <<>> THEN [out |-> <<>>, err |-> FALSE]
    ELSE IF Head(s) = 0 \/ Head(s) > Len(s) - 1 THEN [out |-> <<>>, err |-> TRUE]
    ELSE LET rest == Chunks(SubSeq(s, Head(s) + 2, Len(s)))
         IN  [out |-> SubSeq(s, 2, Head(s) + 1) \o rest.out, err |-> rest.err]

\* the stream starts with the magic
HasMagic(s) ==
    Len(s) >= Len(snappyMagic) /\ SubSeq(s, 1, Len(snappyMagic)) = snappyMagic

Decompress(stream) ==
    IF ~HasMagic(stream) THEN [out |-> <<>>, err |-> TRUE]
    ELSE Chunks(SubSeq(stream, Len(snappyMagic) + 1, Len(stream)))

\* Snapcat after IsSnappy
Snapcat(input, isSnappy) ==
    IF isSnappy THEN Decompress(input) ELSE [out |-> Compress(input), err |-> FALSE]

CatBecomes(next) ==
    /\ cat' = next
    /\ UNCHANGED <<Fingerprints, gitSHAIndex, gitSHAFilter, Files, ArchiveFiles,
                   GitRepoSources, statCache, session, tee, scan, walk, calc, ref, pool,
                   hasher,
                   last, concVars>>

\* Peek(input, length) is called and reads its header
PeekCall ==
    /\ cat.phase \in {"idle", "peeked", "done"}
    /\ \E input \in CatInputs, length \in 0..(MaxCat + 1) :
         \E n \in ReadSizes(input, length) :
            LET p == Peek(input, length, n)
            IN  CatBecomes([NoCat EXCEPT !.phase = "peeked", !.orig = input,
                                         !.stream = input, !.asked = length,
                                         !.header = p.header, !.fullInput = p.fullInput])

\* snapcat is started on an input
CatCall ==
    /\ cat.phase \in {"idle", "peeked", "done"}
    /\ \E input \in CatInputs :
          CatBecomes([NoCat EXCEPT !.phase = "started", !.pass = 1, !.orig = input,
                                   !.stream = input, !.asked = Len(snappyMagic)])

\* Snapcat calls IsSnappy, whose Peek reads the header
CatPeek ==
    /\ cat.phase = "started"
    /\ \E n \in ReadSizes(cat.stream, Len(snappyMagic)) :
          LET p == IsSnappy(cat.stream, n)
          IN  CatBecomes([cat EXCEPT !.phase = "copying", !.header = p.header,
                                     !.fullInput = p.input, !.isSnappy = p.isSnappy])

\* io.Copy(output, input) and the deferred Close
CatCopy ==
    /\ cat.phase = "copying"
    /\ LET r == Snapcat(cat.fullInput, cat.isSnappy)
       IN  CatBecomes([cat EXCEPT !.phase = "done", !.out = r.out, !.err = r.err])

\* the output of the first run is fed to snapcat again
CatAgain ==
    /\ cat.phase = "done"
    /\ cat.pass = 1
    /\ ~cat.err
    /\ CatBecomes([cat EXCEPT !.phase = "started", !.pass = 2, !.stream = cat.out,
                              !.header = <<>>, !.fullInput = <<>>, !.isSnappy = FALSE,
                              !.out = <<>>])

NextCat ==
    \/ PeekCall
    \/ CatCall
    \/ CatPeek
    \/ CatCopy
    \/ CatAgain

SpecCat == Init /\ [][NextCat]_vars

(***************************************************************************)
(* Containers remembered more than once: PutFile and PutArchiveFile on a   *)
(* store that has room for MaxContainers archives.                         *)
(***************************************************************************)
ArchiveCaps(s) ==
    /\ Len(s.Fingerprints) <= MaxFingerprints
    /\ Len(s.Files) <= MaxFiles
    /\ Len(s.ArchiveFiles) <= MaxContainers

ArchivePutFile ==
    \E fa \in FileArgs(Store, FileFingerprints) :
        LET r == PutFile(Store, fa)
        IN  /\ ArchiveCaps(r.store)
            /\ SetStore(r.store)
            /\ last' = [op |-> "PutFile"]
            /\ UNCHANGED concVars

\* PutArchiveFile(r); file is what v.PutFile(r.File) returns, offered the
\* length of r.Entries
ArchivePutArchiveFile ==
    \E ar \in ArchiveArgs(Store, FileFingerprints) :
        LET r == PutArchiveFile(Store, ar)
        IN  /\ ArchiveCaps(r.store)
            /\ SetStore(r.store)
            /\ last' = [op |-> "PutArchiveFile", file |-> PutFile(Store, ar.File).ret,
                        offered |-> Len(ar.Entries), ret |-> r.ret]
            /\ UNCHANGED concVars

NextArchive ==
    \/ ArchivePutFile
    \/ ArchivePutArchiveFile

SpecArchive == Init /\ [][NextArchive]_vars

(***************************************************************************)
(* The worker pools of ScanAndInventoryPath.  The files of a kind are the  *)
(* numbers 1..found[kind]; a scan is one step of its worker.               *)
(***************************************************************************)
PoolBecomes(next) ==
    /\ pool' = next
    /\ UNCHANGED <<Fingerprints, gitSHAIndex, gitSHAFilter, Files, ArchiveFiles,
                   GitRepoSources, statCache, session, tee, scan, walk, calc, ref, cat,
                   hasher,
                   last, concVars>>

\* make(chan *record.ArchiveFile, len(archives)): the capacity of results
ResultsCapUnbuffered(n) == 0

ResultsCap(n) == n

\* the kind handled after kind k, "returned" after the last
After(k) == IF k = "archives" THEN "packages" ELSE "returned"

\* ScanAndInventoryPath is called; the walk finds the archives and packages
PoolCall ==
    /\ pool.phase = "idle"
    /\ \E a, p \in 0..MaxWork :
        PoolBecomes([pool EXCEPT !.phase = "archives", !.pc = "fill",
                                 !.found = [archives |-> a, packages |-> p]])

\* if len(archives) > 0: make both channels, send every file to work, close it
DriverFill ==
    /\ pool.phase \in Kinds
    /\ pool.pc = "fill"
    /\ LET k == pool.phase
           n == pool.found[k]
       IN  IF n = 0
           THEN PoolBecomes([pool EXCEPT !.phase = After(k)])
           ELSE PoolBecomes([pool EXCEPT !.work = [i \in 1..n |-> i],
                                         !.workClosed = TRUE,
                                         !.size[k] = ResultsCap(n),
                                         !.wg = 0,
                                         !.workers = [i \in 1..NumWorkers |->
                                                         [pc |-> "none", file |-> 0]],
                                         !.pc = "spawn"])

\* wg.Add(1); go deepScanWorker(...), for the next of the workers
DriverSpawn ==
    /\ pool.phase \in Kinds
    /\ pool.pc = "spawn"
    /\ LET i == Min({w \in 1..NumWorkers : pool.workers[w].pc = "none"})
       IN  PoolBecomes([pool EXCEPT !.wg = @ + 1,
                                    !.workers[i].pc = "receive",
                                    !.pc = IF i = NumWorkers THEN "bar" ELSE "spawn"])

\* go func() { for range results { bar.Increment() } ... }()
DriverBar ==
    /\ pool.phase \in Kinds
    /\ pool.pc = "bar"
    /\ PoolBecomes([pool EXCEPT !.bar[pool.phase] = "range", !.pc = "wait"])

\* wg.Wait() returns when the counter is zero
DriverWait ==
    /\ pool.phase \in Kinds
    /\ pool.pc = "wait"
    /\ pool.wg = 0
    /\ PoolBecomes([pool EXCEPT !.pc = "close"])

\* close(results); on to the packages, or return
DriverClose ==
    /\ pool.phase \in Kinds
    /\ pool.pc = "close"
    /\ PoolBecomes([pool EXCEPT !.closed[pool.phase] = TRUE,
                                !.phase = After(pool.phase), !.pc = "fill"])

\* deepScanWorker: for file := range input; wg.Done() when input is drained
WorkerReceive(i) ==
    /\ pool.phase \in Kinds
    /\ pool.workers[i].pc = "receive"
    /\ IF pool.work # <<>>
       THEN PoolBecomes([pool EXCEPT !.work = Tail(@),
                                     !.workers[i] = [pc |-> "scan", file |-> Head(pool.work)]])
       ELSE /\ pool.workClosed
            /\ PoolBecomes([pool EXCEPT !.wg = @ - 1,
                                        !.workers[i] = [pc |-> "done", file |-> 0]])

\* _, a := scan(file.Path, ...)
WorkerScan(i) ==
    /\ pool.phase \in Kinds
    /\ pool.workers[i].pc = "scan"
    /\ PoolBecomes([pool EXCEPT !.scanned = Append(@, [kind |-> pool.phase,
                                                       file |-> pool.workers[i].file,
                                                       worker |-> i]),
                                !.workers[i].pc = "send"])

\* output <- a: blocks while the buffer is full, panics on a closed channel
WorkerSend(i) ==
    /\ pool.phase \in Kinds
    /\ pool.workers[i].pc = "send"
    /\ LET k == pool.phase
       IN  IF pool.closed[k]
           THEN PoolBecomes([pool EXCEPT !.panic = TRUE, !.workers[i].pc = "done"])
           ELSE /\ Len(pool.results[k]) < pool.size[k]
                /\ PoolBecomes([pool EXCEPT !.results[k] = Append(@, pool.workers[i].file),
                                            !.workers[i].pc = "receive"])

\* for range results: the next result, or the end when results is closed
BarReceive(k) ==
    /\ pool.bar[k] = "range"
    /\ IF pool.results[k] # <<>>
       THEN PoolBecomes([pool EXCEPT !.results[k] = Tail(@)])
       ELSE /\ pool.closed[k]
            /\ PoolBecomes([pool EXCEPT !.bar[k] = "done"])

NextPool ==
    \/ PoolCall
    \/ DriverFill
    \/ DriverSpawn
    \/ DriverBar
    \/ DriverWait
    \/ DriverClose
    \/ \E i \in 1..NumWorkers : WorkerReceive(i)
    \/ \E i \in 1..NumWorkers : WorkerScan(i)
    \/ \E i \in 1..NumWorkers : WorkerSend(i)
    \/ \E k \in Kinds : BarReceive(k)

SpecPool == Init /\ [][NextPool]_vars

(***************************************************************************)
(* One BasicHasher and the callers of its Digest.  The channel done has no *)
(* buffer; the goroutine of newBasicHasher sends on it once and nothing    *)
(* in the package closes it.                                               *)
(***************************************************************************)
HasherBecomes(next) ==
    /\ hasher' = next
    /\ UNCHANGED <<Fingerprints, gitSHAIndex, gitSHAFilter, Files, ArchiveFiles,
                   GitRepoSources, statCache, session, tee, scan, walk, calc, ref, cat,
                   pool, last, concVars>>

\* newBasicHasher: the channel and the pipe are made, the goroutine started
NewBasicHasher ==
    /\ hasher.phase \in {"idle", "closed"}
    /\ hasher.caller = "idle"
    /\ hasher.runs < MaxRuns
    /\ \E data \in Inputs :
          HasherBecomes([NoHasher EXCEPT !.phase = "open", !.runs = hasher.runs + 1,
                                         !.data = data, !.task = "copying"])

\* BasicHasher.Write: the goroutine's io.Copy takes the byte from the pipe
HasherWrite ==
    /\ hasher.phase = "open"
    /\ hasher.task = "copying"
    /\ Len(hasher.written) < Len(hasher.data)
    /\ HasherBecomes([hasher EXCEPT !.written = Append(@, hasher.data[Len(@) + 1])])

\* BasicHasher.Close: the pipe's writer is closed
HasherClosePipe ==
    /\ hasher.phase = "open"
    /\ Len(hasher.written) = Len(hasher.data)
    /\ HasherBecomes([hasher EXCEPT !.phase = "closed"])

\* the goroutine after io.Copy has returned: bytesHashed and result are set,
\* and it goes on to send result on done
HasherResult ==
    /\ hasher.phase = "closed"
    /\ hasher.task = "copying"
    /\ HasherBecomes([hasher EXCEPT !.result = Digest(hasher.written), !.task = "sending"])

\* sh.Digest() is called: the receiver is a copy of the BasicHasher
DigestCall ==
    /\ hasher.phase \in {"open", "closed"}
    /\ hasher.caller = "idle"
    /\ hasher.calls < MaxDigests
    /\ HasherBecomes([hasher EXCEPT !.caller = "receiving", !.calls = @ + 1,
                                    !.snapshot = hasher.result])

\* d, ok := <-sh.Done(): the value the goroutine sends, which Digest returns;
\* or, on a closed channel, ok is false and Digest returns sh.result
DigestReceive ==
    /\ hasher.caller = "receiving"
    /\ IF hasher.task = "sending"
       THEN HasherBecomes([hasher EXCEPT !.task = "exited", !.caller = "idle",
                                         !.returned = Append(@, hasher.result)])
       ELSE /\ hasher.doneClosed
            /\ HasherBecomes([hasher EXCEPT !.caller = "idle",
                                            !.returned = Append(@, hasher.snapshot)])

NextDigest ==
    \/ NewBasicHasher
    \/ HasherWrite
    \/ HasherClosePipe
    \/ HasherResult
    \/ DigestCall
    \/ DigestReceive

SpecDigest == Init /\ [][NextDigest]_vars

\* the goroutine and the receive in Digest run whenever they can
SpecDigestFair == SpecDigest /\ WF_vars(HasherResult) /\ WF_vars(DigestReceive)

(***************************************************************************)
(* The store called from several goroutines.  A goroutine's calls in       *)
(* progress form a stack of frames, the running call first; a step of a    *)
(* call is a stretch of its code between two lock operations or calls.     *)
(* sync.Mutex is not reentrant: Lock blocks while the mutex is held.       *)
(*                                                                         *)
(* PutFile compares fingerprints (Fingerprint.Is) holding filesLock only,  *)
(* while PutFingerprint may be filling the zero fields of an interned      *)
(* fingerprint under fingerprintsLock: a data race.  The racing read sees  *)
(* each field being filled as it was or as it will be (a torn digest       *)
(* equals no digest, which Is cannot tell from the zero digest).           *)
(***************************************************************************)
\* the frame of a call that has just been made
Frame(fn, arg) ==
    [fn |-> fn, pc |-> "begin", arg |-> arg, existing |-> 0, acc |-> <<>>, val |-> 0]

\* the running frame of goroutine t
Top(t) == Head(tasks[t])

\* goroutine t is at label pc of function fn
At(t, fn, pc) == tasks[t] # <<>> /\ Top(t).fn = fn /\ Top(t).pc = pc

\* the stack of t once its running frame has become f
Replaced(t, f) == <<f>> \o Tail(tasks[t])

\* the stack of t once its running frame, become f, has called fn(arg)
Called(t, f, fn, arg) == <<Frame(fn, arg), f>> \o Tail(tasks[t])

\* the stack of t once its running call has returned v to its caller
Returned(t, v) ==
    IF Len(tasks[t]) = 1 THEN <<>>
    ELSE <<[tasks[t][2] EXCEPT !.val = v]>> \o Tail(Tail(tasks[t]))

\* the records of the top-level calls once the running call of t has
\* returned v (appended: the call has appended a node to its collection);
\* what a call has returned is recorded for PutFingerprint only
Recorded(t, v, appended) ==
    IF Len(tasks[t]) > 1 THEN calls
    ELSE IF calls[t].op = "PutFingerprint"
    THEN [calls EXCEPT ![t] = [@ EXCEPT !.status = "returned", !.ret = v,
                                        !.appended = appended]]
    ELSE [calls EXCEPT ![t] = [@ EXCEPT !.status = "returned"]]

\* goroutine t returns v from its running call
Return(t, v, appended) ==
    /\ tasks' = [tasks EXCEPT ![t] = Returned(t, v)]
    /\ calls' = Recorded(t, v, appended)

\* the number of calls the goroutines 1..t have made
RECURSIVE CallsMade(_)
CallsMade(t) == IF t = 0 THEN 0 ELSE calls[t].n + CallsMade(t - 1)

\* an idle goroutine t calls fn(arg) on the store
StartCall(t, fn, arg, recorded, fresh) ==
    /\ tasks[t] = <<>>
    /\ CallsMade(NumTasks) < MaxCalls
    /\ tasks' = [tasks EXCEPT ![t] = <<Frame(fn, arg)>>]
    /\ calls' = [u \in Tasks |->
                    IF u = t
                    THEN [op |-> fn, arg |-> recorded, fresh |-> fresh,
                          conc |-> {w \in Tasks \ {t} : tasks[w] # <<>>},
                          status |-> "running", ret |-> 0, appended |-> FALSE,
                          n |-> calls[t].n + 1]
                    ELSE IF tasks[u] # <<>>
                         THEN [calls[u] EXCEPT !.conc = @ \cup {t}]
                         ELSE calls[u]]
    /\ UNCHANGED <<storeVars, locks, last>>

\* the fingerprints the goroutines offer: the MD5 of a blob and its size,
\* and for one blob the git-sha too
ConcFingerprints ==
    {FingerprintOf(b, {"MD5"}, SizeOf(b)) : b \in Blobs}
        \cup {FingerprintOf(1, {"GitSHA", "MD5"}, SizeOf(1))}

\* the files the goroutines build: a path and the fingerprint that git
\* records for a blob
ConcBuiltFiles ==
    {FreshFile(1, FreshArg(FingerprintOf(b, {"GitSHA"}, SizeOf(b)))) : b \in Blobs}

\* the files the goroutines offer: an interned pointer or a File they built
ConcFiles(s) == {InternedFile(p) : p \in 1..Len(s.Files)} \cup ConcBuiltFiles

\* the entry lists and file lists the goroutines offer
ConcFileLists(s) == UNION {[1..n -> ConcBuiltFiles] : n \in 0..MaxEntries}

\* no interned fingerprint holds a non-zero digest of fp
NotYetInterned(fp) ==
    \A i \in 1..Len(Fingerprints) :
        \A k \in DigestKinds : ~(fp[k] # 0 /\ fp[k] = Fingerprints[i][k])

StartPutFingerprint ==
    \E t \in Tasks : \E a \in FingerprintArgs(Store, ConcFingerprints) :
        StartCall(t, "PutFingerprint", a, a.val, a.ptr = 0 /\ NotYetInterned(a.val))

StartPutFile ==
    \E t \in Tasks : \E fa \in ConcFiles(Store) :
        StartCall(t, "PutFile", fa, ZeroFingerprint, FALSE)

StartPutArchiveFile ==
    \E t \in Tasks : \E f \in ConcFiles(Store), es \in ConcFileLists(Store) :
        StartCall(t, "PutArchiveFile", [File |-> f, Entries |-> es], ZeroFingerprint, FALSE)

StartPutGitSource ==
    \E t \in Tasks : \E g \in Tags, fs \in ConcFileLists(Store) :
        StartCall(t, "PutGitSource",
                  [Commit |-> 1, Branch |-> <<"a">>, Tag |-> g, URL |-> "u", Files |-> fs],
                  ZeroFingerprint, FALSE)

\* PutFingerprint up to fingerprintsLock.Lock(): the IsCached check and the
\* call of GetFingerprintByGitSHA, which holds fingerprintsLock
PutFingerprintLookup ==
    \E t \in Tasks :
        /\ At(t, "PutFingerprint", "begin")
        /\ IF IsCached(Deref(Store, Top(t).arg))
           THEN Return(t, Top(t).arg.ptr, FALSE)
           ELSE /\ locks.fingerprints = 0
                /\ tasks' = [tasks EXCEPT ![t] = Replaced(t,
                                [Top(t) EXCEPT
                                    !.pc = "lock",
                                    !.existing = GetFingerprintByGitSHA(Store,
                                                    Deref(Store, Top(t).arg).GitSHA)])]
                /\ UNCHANGED calls
        /\ UNCHANGED <<storeVars, locks, last>>

\* PutFingerprint: v.fingerprintsLock.Lock()
PutFingerprintLock ==
    \E t \in Tasks :
        /\ At(t, "PutFingerprint", "lock")
        /\ locks.fingerprints = 0
        /\ locks' = [locks EXCEPT !.fingerprints = t]
        /\ tasks' = [tasks EXCEPT ![t] = Replaced(t, [Top(t) EXCEPT !.pc = "locked"])]
        /\ UNCHANGED <<storeVars, calls, last>>

\* what the locked part of PutFingerprint does for goroutine t
Pending(s, t) == PutFingerprintLocked(s, tasks[t][1].arg, tasks[t][1].existing)

\* PutFingerprint from the lock to the deferred Unlock
PutFingerprintBody ==
    \E t \in Tasks :
        /\ At(t, "PutFingerprint", "locked")
        /\ WithinCaps(Pending(Store, t).store)
        /\ SetStore(Pending(Store, t).store)
        /\ locks' = [locks EXCEPT !.fingerprints = 0]
        /\ Return(t, Pending(Store, t).ret, ~Pending(Store, t).merged)
        /\ UNCHANGED last

\* what a read of v.Fingerprints' nodes that does not hold fingerprintsLock
\* may see
RacyFingerprints(s) ==
    LET W == {u \in Tasks : At(u, "PutFingerprint", "locked")}
    IN  IF W = {} THEN {s.Fingerprints}
        ELSE LET r == Pending(s, CHOOSE u \in W : TRUE)
             IN  IF ~r.merged THEN {s.Fingerprints}
                 ELSE LET old == s.Fingerprints[r.ret]
                          new == r.store.Fingerprints[r.ret]
                          D == {k \in DOMAIN old : old[k] # new[k]}
                      IN  {[s.Fingerprints EXCEPT ![r.ret] =
                                [k \in DOMAIN old |-> IF k \in S THEN new[k] ELSE old[k]]] :
                            S \in SUBSET D}

\* PutFile up to the call of PutFingerprint: the IsCached check, Lock and the
\* loop over v.Files
PutFileBegin ==
    \E t \in Tasks :
        /\ At(t, "PutFile", "begin")
        /\ IF Top(t).arg.ptr > 0 /\ IsCached(Files[Top(t).arg.ptr])
           THEN Return(t, Top(t).arg.ptr, FALSE) /\ UNCHANGED locks
           ELSE /\ locks.files = 0
                /\ \E fps \in RacyFingerprints(Store) :
                      LET m == ScanFiles([Store EXCEPT !.Fingerprints = fps], Top(t).arg)
                      IN  IF m # 0
                          THEN Return(t, m, FALSE) /\ UNCHANGED locks
                          ELSE /\ locks' = [locks EXCEPT !.files = t]
                               /\ tasks' = [tasks EXCEPT ![t] =
                                    Called(t, [Top(t) EXCEPT !.pc = "append"],
                                           "PutFingerprint",
                                           FingerprintArgOf(Store, Top(t).arg))]
                               /\ UNCHANGED calls
        /\ UNCHANGED <<storeVars, last>>

\* PutFile from the return of PutFingerprint to the deferred Unlock
PutFileAppend ==
    \E t \in Tasks :
        /\ At(t, "PutFile", "append")
        /\ LET r == AppendFile(Store, PathOf(Store, Top(t).arg), Top(t).val)
           IN  /\ WithinCaps(r.store)
               /\ SetStore(r.store)
               /\ Return(t, r.ret, TRUE)
        /\ locks' = [locks EXCEPT !.files = 0]
        /\ UNCHANGED last

\* the rest of a call of PutArchiveFile or PutGitSource whose frame is f and
\* which has remembered the files acc of its list fas: it calls PutFile of
\* the next file holding its lock lk, or it appends its node (the store and
\* pointer in done) and returns, releasing lk
RememberNext(t, f, fas, acc, done, lk) ==
    IF Len(acc) < Len(fas)
    THEN /\ tasks' = [tasks EXCEPT ![t] =
                Called(t, [f EXCEPT !.pc = "collect", !.acc = acc],
                       "PutFile", fas[Len(acc) + 1])]
         /\ locks' = [locks EXCEPT ![lk] = t]
         /\ UNCHANGED <<storeVars, calls>>
    ELSE /\ WithinCaps(done.store)
         /\ SetStore(done.store)
         /\ locks' = [locks EXCEPT ![lk] = 0]
         /\ Return(t, done.ret, TRUE)

\* PutArchiveFile: Lock and the call PutFile(r.File)
PutArchiveFileBegin ==
    \E t \in Tasks :
        /\ At(t, "PutArchiveFile", "begin")
        /\ locks.archives = 0
        /\ locks' = [locks EXCEPT !.archives = t]
        /\ tasks' = [tasks EXCEPT ![t] =
                Called(t, [Top(t) EXCEPT !.pc = "scan"], "PutFile", Top(t).arg.File)]
        /\ UNCHANGED <<storeVars, calls, last>>

\* PutArchiveFile from the return of PutFile(r.File): the loop over
\* v.ArchiveFiles, then the first entry or the append
PutArchiveFileScan ==
    \E t \in Tasks :
        /\ At(t, "PutArchiveFile", "scan")
        /\ LET file == Top(t).val
               m == ScanArchives(Store, file)
           IN  IF m # 0
               THEN /\ Return(t, m, FALSE)
                    /\ locks' = [locks EXCEPT !.archives = 0]
                    /\ UNCHANGED storeVars
               ELSE RememberNext(t, [Top(t) EXCEPT !.existing = file],
                                 Top(t).arg.Entries, <<>>,
                                 AppendArchive(Store, file, <<>>), "archives")
        /\ UNCHANGED last

\* PutArchiveFile from the return of PutFile of an entry
PutArchiveFileCollect ==
    \E t \in Tasks :
        /\ At(t, "PutArchiveFile", "collect")
        /\ LET acc == Append(Top(t).acc, Top(t).val)
           IN  RememberNext(t, Top(t), Top(t).arg.Entries, acc,
                            AppendArchive(Store, Top(t).existing, acc), "archives")
        /\ UNCHANGED last

\* PutGitSource: Lock, the loop over v.GitRepoSources, then the first file or
\* the append
PutGitSourceBegin ==
    \E t \in Tasks :
        /\ At(t, "PutGitSource", "begin")
        /\ locks.repos = 0
        /\ LET m == ScanRepos(Store, Top(t).arg)
           IN  IF m # 0
               THEN Return(t, m, FALSE) /\ UNCHANGED <<storeVars, locks>>
               ELSE RememberNext(t, Top(t), Top(t).arg.Files, <<>>,
                                 AppendRepo(Store, Top(t).arg, <<>>), "repos")
        /\ UNCHANGED last

\* PutGitSource from the return of PutFile of a file
PutGitSourceCollect ==
    \E t \in Tasks :
        /\ At(t, "PutGitSource", "collect")
        /\ LET acc == Append(Top(t).acc, Top(t).val)
           IN  RememberNext(t, Top(t), Top(t).arg.Files, acc,
                            AppendRepo(Store, Top(t).arg, acc), "repos")
        /\ UNCHANGED last

\* the mutexes goroutine t holds
Held(t) == {l \in DOMAIN locks : locks[l] = t}

\* a goroutine calls Verify, FindArchiveFilesContainingFingerprint of an
\* interned fingerprint, or GetArchiveFile of a file it has built
StartRead ==
    \E t \in Tasks :
        \/ StartCall(t, "Verify", NilArg, ZeroFingerprint, FALSE)
        \/ \E p \in 1..Len(Fingerprints) :
                StartCall(t, "FindArchiveFilesContainingFingerprint", InternedArg(p),
                          ZeroFingerprint, FALSE)
        \/ \E f \in ConcBuiltFiles :
                StartCall(t, "GetArchiveFile", f, ZeroFingerprint, FALSE)

\* Verify (NewSerializedCache and DumpCache begin alike): the four Lock calls
\* in the order of the code, one a step; the checks run once reposLock is
\* held, and the deferred Unlocks release all four
VerifyStep ==
    \E t \in Tasks :
        /\ tasks[t] # <<>>
        /\ Top(t).fn = "Verify"
        /\ LET order == <<"fingerprints", "files", "archives", "repos">>
               next == order[Len(Top(t).acc) + 1]
           IN  /\ locks[next] = 0
               /\ IF next # "repos"
                  THEN /\ locks' = [locks EXCEPT ![next] = t]
                       /\ tasks' = [tasks EXCEPT ![t] = Replaced(t,
                                        [Top(t) EXCEPT !.acc = Append(@, next)])]
                       /\ UNCHANGED calls
                  ELSE /\ locks' = [l \in DOMAIN locks |-> IF locks[l] = t THEN 0 ELSE locks[l]]
                       /\ Return(t, IF Verify(Store) THEN 0 ELSE 1, FALSE)
        /\ UNCHANGED <<storeVars, last>>

\* FindArchiveFilesContainingFingerprint: GetFingerprintByGitSHA under
\* fingerprintsLock, the loop of FindFilesWithFingerprint under filesLock,
\* then the loop over v.ArchiveFiles, which takes no lock
FindArchiveFilesStep ==
    \E t \in Tasks :
        /\ tasks[t] # <<>>
        /\ Top(t).fn = "FindArchiveFilesContainingFingerprint"
        /\ \/ /\ Top(t).pc = "begin"
              /\ locks.fingerprints = 0
              /\ LET fp == GetFingerprintByGitSHA(Store, Deref(Store, Top(t).arg).GitSHA)
                 IN  IF fp = 0 THEN Return(t, 0, FALSE)
                     ELSE /\ tasks' = [tasks EXCEPT ![t] = Replaced(t,
                                        [Top(t) EXCEPT !.pc = "files", !.existing = fp])]
                          /\ UNCHANGED calls
           \/ /\ Top(t).pc = "files"
              /\ locks.files = 0
              /\ tasks' = [tasks EXCEPT ![t] = Replaced(t,
                                [Top(t) EXCEPT !.pc = "archives"])]
              /\ UNCHANGED calls
           \/ /\ Top(t).pc = "archives"
              /\ Return(t, Len(FindArchiveFilesContainingFingerprint(Store, Top(t).arg)),
                        FALSE)
        /\ UNCHANGED <<storeVars, locks, last>>

\* GetArchiveFile of a file that is not cached: archivesLock.Lock(), then
\* GetFileByNameAndGitSHA takes filesLock, and once it has returned the loop
\* over v.ArchiveFiles runs and archivesLock is released
GetArchiveFileStep ==
    \E t \in Tasks :
        /\ tasks[t] # <<>>
        /\ Top(t).fn = "GetArchiveFile"
        /\ \/ /\ Top(t).pc = "begin"
              /\ locks.archives = 0
              /\ locks' = [locks EXCEPT !.archives = t]
              /\ tasks' = [tasks EXCEPT ![t] = Replaced(t, [Top(t) EXCEPT !.pc = "lookup"])]
              /\ UNCHANGED calls
           \/ /\ Top(t).pc = "lookup"
              /\ locks.files = 0
              /\ locks' = [locks EXCEPT !.files = t]
              /\ tasks' = [tasks EXCEPT ![t] = Replaced(t, [Top(t) EXCEPT !.pc = "found"])]
              /\ UNCHANGED calls
           \/ /\ Top(t).pc = "found"
              /\ locks' = [locks EXCEPT !.files = 0, !.archives = 0]
              /\ LET fp == Top(t).arg.Fingerprint.val
                     M == {i \in 1..Len(Files) :
                            /\ Files[i].Path = Top(t).arg.Path
                            /\ Fingerprints[Files[i].Fingerprint].GitSHA = fp.GitSHA}
                 IN  Return(t, IF M = {} THEN 0 ELSE ScanArchives(Store, Min(M)), FALSE)
        /\ UNCHANGED <<storeVars, last>>

\* the collections whose nodes the next step of goroutine t reads without
\* holding their mutex: PutFile's loop calls Fingerprint.Is on interned
\* fingerprints under filesLock only; FindArchiveFilesContainingFingerprint
\* ranges over v.ArchiveFiles under no lock; GetFileByNameAndGitSHA reads the
\* GitSHA of interned fingerprints under filesLock only
Unguarded(t) ==
    IF At(t, "PutFile", "begin") /\ Top(t).arg.ptr = 0 /\ Files # <<>>
    THEN {"fingerprints"}
    ELSE IF At(t, "FindArchiveFilesContainingFingerprint", "archives")
    THEN {"archives"}
    ELSE IF At(t, "GetArchiveFile", "found") /\ Files # <<>>
    THEN {"fingerprints"}
    ELSE {}

\* the process persists its store and a later process restores it, while no
\* goroutine is inside the store
PersistAndRestore ==
    /\ \A t \in Tasks : tasks[t] = <<>>
    /\ Verify(Store)
    /\ SetStore(Restored(Store))
    /\ UNCHANGED <<concVars, last>>

NextConc ==
    \/ StartPutFingerprint
    \/ StartPutFile
    \/ StartPutArchiveFile
    \/ StartPutGitSource
    \/ PutFingerprintLookup
    \/ PutFingerprintLock
    \/ PutFingerprintBody
    \/ PutFileBegin
    \/ PutFileAppend
    \/ PutArchiveFileBegin
    \/ PutArchiveFileScan
    \/ PutArchiveFileCollect
    \/ PutGitSourceBegin
    \/ PutGitSourceCollect
    \/ StartRead
    \/ VerifyStep
    \/ FindArchiveFilesStep
    \/ GetArchiveFileStep
    \/ PersistAndRestore

SpecConc == Init /\ [][NextConc]_vars

(***************************************************************************)
(* Properties of fingerprint interning.                                    *)
(***************************************************************************)
\* f and g hold an equal non-zero digest of the same kind
SharesDigest(f, g) == \E k \in DigestKinds : f[k] # 0 /\ f[k] = g[k]

\* C1: no two distinct interned fingerprints hold an equal non-zero digest of
\* the same kind (fingerprints of one blob are collapsed into one node).
C1_NoTwoNodesShareDigest ==
    \A i, j \in 1..Len(Fingerprints) :
        i # j => ~SharesDigest(Fingerprints[i], Fingerprints[j])

\* C2: PutFingerprint returns an already interned node for an incoming
\* fingerprint only when the node (as it was before the call) and the incoming
\* fingerprint share a non-zero digest of the same kind.
C2_MergeOnlyOnSharedDigest ==
    [][(last'.op = "PutFingerprint" /\ last'.ptr = 0 /\ last'.merged)
          => SharesDigest(Fingerprints[last'.ret], last'.arg)]_vars

\* C3: for every store state and every fingerprint fp, passing the pointer
\* returned by PutFingerprint(fp) to PutFingerprint again returns that same
\* pointer and leaves the store (nodes, ids, index, filter) as it was.
C3_InternIdempotent ==
    \A fp \in InputFingerprints :
        LET r1 == PutFingerprint(Store, FreshArg(fp))
            r2 == PutFingerprint(r1.store, InternedArg(r1.ret))
        IN  r2.ret = r1.ret /\ r2.store = r1.store

\* C3 witness: a pointer returned by PutFingerprint was put again, in a store
\* that holds a node with a zero git-sha which shares a digest with an earlier
\* node (the lookup path would find the earlier node).
C3_Witness ==
    /\ last.op = "PutFingerprint"
    /\ last.ptr = 2
    /\ last.ret = 2
    /\ SharesDigest(Fingerprints[1], Fingerprints[2])

\* the fields of a fingerprint that a merge may fill
MergedFields == DigestKinds \cup {"Size"}

\* C5: a merge never changes a digest or the size of an interned node that was
\* non-zero before the merge, whatever the incoming fingerprint carries.
C5_MergeKeepsPopulatedFields ==
    \A fp \in InputFingerprints :
        LET r == PutFingerprint(Store, FreshArg(fp))
        IN  \A i \in 1..Len(Fingerprints) : \A k \in MergedFields :
                Fingerprints[i][k] # 0 => r.store.Fingerprints[i][k] = Fingerprints[i][k]

\* C5 witness: a merge has filled a zero field of a node from an incoming
\* fingerprint that carried a different value for a field the node had populated.
C5_Witness ==
    /\ last.op = "PutFingerprint" /\ last.ptr = 0 /\ last.merged
    /\ \E k \in MergedFields :
          /\ last.arg[k] # 0
          /\ Fingerprints[last.ret][k] # 0
          /\ Fingerprints[last.ret][k] # last.arg[k]
    /\ \E k \in MergedFields :
          /\ last.arg[k] # 0
          /\ Fingerprints[last.ret][k] = last.arg[k]

\* C6: for fingerprints a and b that share a populated digest, PutFingerprint(a)
\* then PutFingerprint(b) return one node, which carries every digest populated
\* in a or in b and the non-zero size among the two.
C6_MergeMonotone ==
    \A a, b \in InputFingerprints :
        SharesDigest(a, b) =>
            LET r1 == PutFingerprint(Store, FreshArg(a))
                r2 == PutFingerprint(r1.store, FreshArg(b))
                n  == r2.store.Fingerprints[r2.ret]
            IN  /\ r1.ret = r2.ret
                /\ \A k \in DigestKinds :
                      /\ a[k] # 0 => n[k] = a[k]
                      /\ b[k] # 0 => n[k] = b[k]
                /\ a.Size # 0 => n.Size = a.Size
                /\ b.Size # 0 => n.Size = b.Size

\* C7: every interned fingerprint with a non-zero git-sha g is the node that
\* GetFingerprintByGitSHA(g) returns.
C7_IndexCoversEveryGitSHA ==
    \A i \in 1..Len(Fingerprints) :
        Fingerprints[i].GitSHA # 0
            => GetFingerprintByGitSHA(Store, Fingerprints[i].GitSHA) = i

\* C8: GetFingerprintByGitSHA(k) returns a node exactly when the filter
\* contains k and the index holds k, and the node returned has git-sha k.
C8_LookupExact ==
    \A k \in GitSHAKeys :
        LET r == GetFingerprintByGitSHA(Store, k)
        IN  /\ (r # 0) <=> (FilterContains(gitSHAFilter, k) /\ k \in DOMAIN gitSHAIndex)
            /\ r # 0 => Fingerprints[r].GitSHA = k

(***************************************************************************)
(* Properties of the graph and of its serialized form.                     *)
(***************************************************************************)
\* C10: for every store on which Verify() holds, loading the SerializedCache
\* that NewSerializedCache produces into a new store returns no error and
\* yields the same fingerprints, files (each with the fingerprint of the same
\* id), archives (file and entries in order), repos (files in order) and
\* stat-cache mapping, and Verify() holds on the loaded store.
C10_SerializationRoundTrip ==
    Verify(Store) =>
        LET onDisk == NewSerializedCache(Store)
            loaded == LoadSerializedCache(EmptyStore, onDisk)
        IN  /\ ReferencesInRange(onDisk)
            /\ LoadError(onDisk) = ""
            /\ loaded.Fingerprints = Fingerprints
            /\ loaded.Files = Files
            /\ loaded.ArchiveFiles = ArchiveFiles
            /\ loaded.GitRepoSources = GitRepoSources
            /\ loaded.statCache = statCache
            /\ Verify(loaded)

\* C10 witness: a store that holds an archive with an entry, a repo with a
\* file and a stat-cache entry, the archive's file not being the first file,
\* has been persisted and restored.
C10_Witness ==
    /\ last.op = "Restore"
    /\ Len(ArchiveFiles) > 0 /\ Len(GitRepoSources) > 0 /\ DOMAIN statCache # {}
    /\ ArchiveFiles[1].Entries # <<>> /\ GitRepoSources[1].Files # <<>>
    /\ ArchiveFiles[1].File # 1
    /\ Len(Fingerprints) > 1

(***************************************************************************)
(* Properties of the store called from several goroutines.                 *)
(***************************************************************************)
\* no goroutine holds one of the four mutexes: Verify() can take them all
NoLockHeld == locks = FreeLocks

\* C4: when two goroutines have called PutFingerprint at overlapping times
\* with fingerprints that share a digest and that no interned node held a
\* digest of when each call began, exactly one of the two calls has appended
\* a node and both have returned the same node.
C4_ConcurrentInternOnce ==
    \A t, u \in Tasks :
        ( /\ t # u
          /\ calls[t].op = "PutFingerprint" /\ calls[t].status = "returned"
          /\ calls[u].op = "PutFingerprint" /\ calls[u].status = "returned"
          /\ u \in calls[t].conc /\ t \in calls[u].conc
          /\ calls[t].fresh /\ calls[u].fresh
          /\ SharesDigest(calls[t].arg, calls[u].arg) )
        => /\ calls[t].ret = calls[u].ret
           /\ calls[t].appended # calls[u].appended

\* C9: whenever Verify() can run (no mutex is held), it returns no error: in
\* each of the four collections the node at position id has cache id id.
C9_VerifySucceeds == NoLockHeld => Verify(Store)

\* C9 witness: all four collections hold a node, the last calls of two
\* goroutines, a PutArchiveFile and a PutGitSource, have overlapped and have
\* returned, and no mutex is held.
C9_Witness ==
    /\ NoLockHeld
    /\ Len(Fingerprints) > 1 /\ Len(Files) > 1
    /\ Len(ArchiveFiles) > 0 /\ Len(GitRepoSources) > 0
    /\ \E t, u \in Tasks :
          /\ calls[t].op = "PutArchiveFile" /\ calls[t].status = "returned"
          /\ calls[u].op = "PutGitSource" /\ calls[u].status = "returned"
          /\ u \in calls[t].conc /\ t \in calls[u].conc

\* the answers of the store s to the queries: by git-sha, by digest matcher,
\* and the files, archives and repos of a fingerprint
Answers(s) ==
    [byGitSHA |-> [k \in GitSHAKeys |-> GetFingerprintByGitSHA(s, k)],
     matching |-> [k \in {"GitSHA", "MD5"} |->
                     [d \in GitSHAKeys |-> FindMatchingFingerprint(s, k, d)]],
     files    |-> [a \in FingerprintArgs(s, GraphFingerprints) |->
                     FindFilesWithFingerprint(s, a)],
     archives |-> [a \in FingerprintArgs(s, GraphFingerprints) |->
                     FindArchiveFilesContainingFingerprint(s, a)],
     repos    |-> [a \in FingerprintArgs(s, GraphFingerprints) |->
                     FindGitSourcesContainingFingerprint(s, a)]]

\* C11: for every store reached by put operations, every query returns on
\* the store restored from its persisted form what it returns on the store
\* itself (node for node: a restored node is at the position of the original).
C11_QueriesSurviveRestore ==
    Verify(Store) => Answers(Restored(Store)) = Answers(Store)

\* C12: restoring from an inconsistent serialized cache returns no store, and
\* the process goes on running with an empty store.
C12_InconsistentRestoreDiscarded ==
    (last.op = "Restore" /\ last.inconsistent) =>
        /\ last.outcome = "nil"
        /\ session.phase = "running"
        /\ Store = EmptyStore

\* C13: a PersistRememberedObjects whose Verify fails leaves both files as
\* they were.
C13_NoWriteWhenVerifyFails ==
    [][(last'.op = "Persist" /\ ~Verify(Store)) =>
            (session'.gob = session.gob /\ session'.yaml = session.yaml)]_vars

C13_Witness ==
    /\ last.op = "Persist"
    /\ ~last.verified
    /\ session.yaml.exists

\* C14: whenever a goroutine reads or writes one of the four collections, or
\* a field of a node in it, it holds that collection's mutex.
C14_AccessUnderLock == \A t \in Tasks : Unguarded(t) = {}

\* C15: a goroutine inside a store method other than Verify (or
\* NewSerializedCache, DumpCache) holds at most one of the four mutexes, and
\* one inside Verify holds a prefix of fingerprints, files, archives, repos.
C15_LockDiscipline ==
    \A t \in Tasks :
        tasks[t] # <<>> =>
            IF calls[t].op = "Verify"
            THEN Held(t) \in {{}, {"fingerprints"}, {"fingerprints", "files"},
                              {"fingerprints", "files", "archives"}}
            ELSE Cardinality(Held(t)) <= 1

\* C16: a tee whose input ends without an error has given its reader, once
\* that has reached EOF, exactly the bytes of the input in order, and its
\* future, once resolved, holds the fingerprint of those bytes.
C16_TeeYieldsInputAndFingerprint ==
    (tee.phase \in {"running", "hit"} /\ tee.failAt > Len(tee.R)) =>
        /\ tee.cons = "eof" => tee.got = tee.R
        /\ tee.future # 0 =>
              Fingerprints[tee.future] =
                  SetCacheID(CalculateSums(tee.R, Len(tee.R)), tee.future - 1)

\* C17: once the caller has stopped reading before the end of the input, the
\* future is eventually resolved.
C17_FutureResolvesAfterEarlyStop ==
    (tee.cons = "stopped" /\ Len(tee.got) < Len(tee.R)) ~> (tee.future # 0)

\* C18: when reading the input of a tee has failed, the reader of the tee
\* ends with an error, not with EOF.
C18_ConsumerSeesInputError ==
    (tee.phase = "running" /\ tee.err = "read") => tee.cons # "eof"

\* C19: fingerprintPassthrough of a reader that an earlier call returned
\* panics, before a pipe or a goroutine is created.
C19_NestedTeePanics ==
    tee.reader = "*passthroughHasher" => tee.phase = "panicked"

\* C20: what the caller has appended to archive.Entries, followed by the
\* entry the goroutine is sending, is at every moment the entries the
\* traversal has produced so far, in traversal order; and once the caller
\* has received the completion signal, every entry produced has been appended.
C20_EntriesInTraversalOrder ==
    LET produced == SelectSeq(SubSeq(scan.members, 1, scan.next - 1), LAMBDA m : m # 0)
        inFlight == scan.buffer \o (IF scan.sending # 0 THEN <<scan.sending>> ELSE <<>>)
    IN  scan.phase = "running" =>
            /\ scan.pc = "select" => scan.Entries \o inFlight = produced
            /\ scan.result = "archive" =>
                  scan.Entries = SelectSeq(scan.members, LAMBDA m : m # 0)

C20_Witness ==
    /\ scan.result = "archive"
    /\ scan.members = <<2, 0, 1>>
    /\ scan.Entries = <<2, 1>>

\* C21: the ArchiveFile a scan returns for a container it has read lists
\* exactly one File per entry of the container that is not a directory,
\* nested archives and entries whose nested scan fails included.
C21_OneFilePerEntry ==
    (walk.phase = "done" /\ walk.read /\ walk.archive # 0) =>
        Len(ArchiveFiles[walk.archive].Entries)
            = Len(SelectSeq(walk.container.entries, LAMBDA e : e.kind # "dir"))

\* C22: no call of IdentifyArchiveContents runs deeper than the limit the
\* scan was started with.
C22_DepthWithinLimit ==
    walk.phase # "idle" => walk.deepest <= walk.limit

C24_GitHasherRefusesWrongSize ==
    \A h \in 1..Len(calc.got) :
        (calc.hashers[h] = "git" /\ calc.pos # calc.size) => calc.got[h] = 0

\* C26: every call of CalculateSums returns, with one result collected per
\* hasher, every hasher goroutine past the send of its result and no
\* goroutine of Done() left waiting.
C26_CalculateSumsTerminates ==
    (calc.phase = "copying" /\ calc.use = "CalculateSums")
        ~> (/\ calc.phase = "returned"
            /\ Len(calc.got) = Len(calc.hashers)
            /\ \A h \in 1..Len(calc.task) : calc.task[h] = "exited"
            /\ calc.wrapper = "exited")

C26_Witness ==
    /\ calc.phase = "returned" /\ calc.use = "CalculateSums"
    /\ calc.err /\ calc.pos = 1 /\ Len(calc.got) = 2
    /\ \A h \in 1..Len(calc.task) : calc.task[h] = "exited"

\* C25: the fingerprint the passthrough interns and sends on the future is
\* that of a stream as long as the declared size: one calculated from fewer
\* bytes, without a git-sha, is not handed to PutFingerprint.
C25_PartialNeverInterned ==
    (tee.phase = "running" /\ tee.future # 0) => Len(tee.hashed) = tee.size

\* C27: for every interned fingerprint, with or without a git-sha,
\* FindFilesWithFingerprint returns every interned File whose Fingerprint is
\* that node.
C27_FindFilesFindsAll ==
    \A p \in 1..Len(Fingerprints) :
        LET found == FindFilesWithFingerprint(Store, InternedArg(p))
        IN  {f \in 1..Len(Files) : Files[f].Fingerprint = p}
                \subseteq {found[i] : i \in 1..Len(found)}

\* C28: for every interned fingerprint, FindArchiveFilesContainingFingerprint
\* returns exactly the archives one of whose entries has that fingerprint:
\* every such archive, and no archive that lacks such an entry (one that holds
\* the fingerprint only inside a nested archive included).
C28_DirectArchivesExactly ==
    \A p \in 1..Len(Fingerprints) :
        LET found == FindArchiveFilesContainingFingerprint(Store, InternedArg(p))
        IN  {found[i] : i \in 1..Len(found)}
                = {a \in 1..Len(ArchiveFiles) :
                     \E e \in 1..Len(ArchiveFiles[a].Entries) :
                        Files[ArchiveFiles[a].Entries[e]].Fingerprint = p}

C30_FilesInTraversalOrder ==
    ref.phase = "returned" =>
        LET fs == GitRepoSources[ref.ret].Files
        IN  /\ Len(fs) = Len(ref.tree)
            /\ \A i \in 1..Len(fs) :
                  /\ Files[fs[i]].Path = ref.tree[i].path
                  /\ Fingerprints[Files[fs[i]].Fingerprint].GitSHA = Oid(ref.tree[i])

\* C31: for an input that does not start with the stream magic, the output of
\* snapcat fed to snapcat again gives the input back, without an error.
C31_SnapcatInvolution ==
    (/\ cat.phase = "done"
     /\ cat.pass = 2
     /\ ~HasMagic(cat.orig))
        => (cat.out = cat.orig /\ ~cat.err)

\* C32: the reader Peek (and IsSnappy) returns holds exactly the bytes of the
\* input, and the header has min(requested, input length) bytes.
C32_PeekNonDestructive ==
    cat.phase \in {"peeked", "copying"} =>
        /\ cat.fullInput = cat.stream
        /\ Len(cat.header) = Min({cat.asked, Len(cat.stream)})

\* a step of a store call in progress (not the start of a call)
CallStep ==
    \/ PutFingerprintLookup
    \/ PutFingerprintLock
    \/ PutFingerprintBody
    \/ PutFileBegin
    \/ PutFileAppend
    \/ PutArchiveFileBegin
    \/ PutArchiveFileScan
    \/ PutArchiveFileCollect
    \/ PutGitSourceBegin
    \/ PutGitSourceCollect
    \/ VerifyStep
    \/ FindArchiveFilesStep
    \/ GetArchiveFileStep

\* C33: the store is deadlock-free: while store calls are in progress, one of
\* them can take its next step (no set of calls waits for each other's
\* mutexes), so every call can go on to its return.
C33_DeadlockFree ==
    (\E t \in Tasks : tasks[t] # <<>>) => ENABLED CallStep

\* C34: referential integrity: every File references an interned Fingerprint,
\* every ArchiveFile's File and Entries and every GitRepoSource's Files are
\* interned Files, every stat-cache value is an interned Fingerprint, and
\* NewSerializedCache writes for each reference the id of the node it points to.
C34_ReferentialIntegrity ==
    LET fps == 1..Len(Fingerprints)
        fs == 1..Len(Files)
        onDisk == NewSerializedCache(Store)
    IN  /\ \A i \in fs : Files[i].Fingerprint \in fps
        /\ \A i \in 1..Len(ArchiveFiles) :
              /\ ArchiveFiles[i].File \in fs
              /\ \A e \in 1..Len(ArchiveFiles[i].Entries) : ArchiveFiles[i].Entries[e] \in fs
        /\ \A i \in 1..Len(GitRepoSources) :
              \A e \in 1..Len(GitRepoSources[i].Files) : GitRepoSources[i].Files[e] \in fs
        /\ \A k \in DOMAIN statCache : statCache[k] \in fps
        /\ \A i \in fs :
              onDisk.Files[i].Fingerprint = Fingerprints[Files[i].Fingerprint].id
        /\ \A i \in 1..Len(ArchiveFiles) :
              /\ onDisk.Archives[i].File = Files[ArchiveFiles[i].File].id
              /\ \A e \in 1..Len(ArchiveFiles[i].Entries) :
                    onDisk.Archives[i].Entries[e] = Files[ArchiveFiles[i].Entries[e]].id
        /\ \A i \in 1..Len(GitRepoSources) :
              \A e \in 1..Len(GitRepoSources[i].Files) :
                    onDisk.Repos[i].Files[e] = Files[GitRepoSources[i].Files[e]].id
        /\ \A k \in DOMAIN statCache : onDisk.StatCache[k] = Fingerprints[statCache[k]].id

\* a store with an archive of an entry, a repo of a file and a stat-cache entry
C34_Witness ==
    /\ \E i \in 1..Len(ArchiveFiles) : ArchiveFiles[i].Entries # <<>>
    /\ \E i \in 1..Len(GitRepoSources) : GitRepoSources[i].Files # <<>>
    /\ DOMAIN statCache # {}
    /\ Len(Fingerprints) > 1

\* C35: a step never removes or re-numbers an interned node: every node stays
\* at its position with its cache id (a File with its path and fingerprint, an
\* archive with its File, a repo with its commit), and what a step adds to a
\* collection is appended with the next ids.
C35_NodesStay ==
    [][/\ \A i \in 1..Len(Fingerprints) :
            /\ i <= Len(Fingerprints')
            /\ Fingerprints'[i].id = Fingerprints[i].id
            /\ Fingerprints'[i].hasID = Fingerprints[i].hasID
       /\ \A i \in 1..Len(Files) :
            /\ i <= Len(Files')
            /\ Files'[i] = Files[i]
       /\ \A i \in 1..Len(ArchiveFiles) :
            /\ i <= Len(ArchiveFiles')
            /\ ArchiveFiles'[i].id = ArchiveFiles[i].id
            /\ ArchiveFiles'[i].File = ArchiveFiles[i].File
       /\ \A i \in 1..Len(GitRepoSources) :
            /\ i <= Len(GitRepoSources')
            /\ GitRepoSources'[i].id = GitRepoSources[i].id
            /\ GitRepoSources'[i].Commit = GitRepoSources[i].Commit
       /\ \A i \in (Len(Fingerprints) + 1)..Len(Fingerprints') : CacheID(Fingerprints'[i]) = i - 1
       /\ \A i \in (Len(Files) + 1)..Len(Files') : CacheID(Files'[i]) = i - 1
       /\ \A i \in (Len(ArchiveFiles) + 1)..Len(ArchiveFiles') :
            CacheID(ArchiveFiles'[i]) = i - 1
       /\ \A i \in (Len(GitRepoSources) + 1)..Len(GitRepoSources') :
            CacheID(GitRepoSources'[i]) = i - 1]_vars

\* every collection holds nodes, two of them more than one, after a call that
\* found its node interned
C35_Witness ==
    /\ Len(Fingerprints) >= 2
    /\ Len(Files) >= 2
    /\ ArchiveFiles # <<>>
    /\ GitRepoSources # <<>>
    /\ last.op = "PutFingerprint"

\* C36: PutArchiveFile for a container whose interned File already has an
\* ArchiveFile returns that ArchiveFile, adds no ArchiveFile and leaves the
\* Entries of every ArchiveFile as they were; no two ArchiveFiles have the
\* same File.
C36_OneArchivePerFile ==
    /\ [](\A i, j \in 1..Len(ArchiveFiles) :
            ArchiveFiles[i].File = ArchiveFiles[j].File => i = j)
    /\ [][(/\ last'.op = "PutArchiveFile"
           /\ \E i \in 1..Len(ArchiveFiles) : ArchiveFiles[i].File = last'.file)
          => /\ ArchiveFiles' = ArchiveFiles
             /\ ArchiveFiles[last'.ret].File = last'.file]_vars

\* a second container is remembered, and the last call offered entries for a
\* container that was remembered without any
C36_Witness ==
    /\ Len(ArchiveFiles) = MaxContainers
    /\ last.op = "PutArchiveFile"
    /\ last.offered > 0
    /\ ArchiveFiles[last.ret].Entries = <<>>

\* C37: in every store state and for every git-sha of full length, the lookup
\* through the index, GetFingerprintByGitSHA, returns what the linear scan
\* FindMatchingFingerprint returns for the matcher "the git-sha is k".
C37_IndexAgreesWithScan ==
    \A k \in GitSHAKeys :
        GetFingerprintByGitSHA(Store, k) = FindMatchingFingerprint(Store, "GitSHA", k)

\* the calls of the scan function for file f of kind k
ScansOf(k, f) ==
    {n \in 1..Len(pool.scanned) : pool.scanned[n].kind = k /\ pool.scanned[n].file = f}

\* C38: no archive and no package is scanned twice; a worker that has a result
\* to send finds room in the results channel, which is still open; and when
\* the driver has passed a kind, or returned, every file of that kind has been
\* scanned once; no worker is still at work when wg.Wait() has returned.
C38_PoolScansEachOnce ==
    /\ \A k \in Kinds : \A f \in 1..MaxWork : Cardinality(ScansOf(k, f)) <= 1
    /\ \A i \in 1..NumWorkers :
          (pool.phase \in Kinds /\ pool.workers[i].pc = "send")
              => /\ Len(pool.results[pool.phase]) < pool.size[pool.phase]
                 /\ ~pool.closed[pool.phase]
    /\ ~pool.panic
    /\ \A k \in Kinds :
          (pool.phase = "returned" \/ (k = "archives" /\ pool.phase = "packages"))
              => \A f \in 1..pool.found[k] : Cardinality(ScansOf(k, f)) = 1
    /\ (pool.phase = "returned" \/ pool.pc = "close")
          => \A i \in 1..NumWorkers : pool.workers[i].pc \in {"none", "done"}

\* the driver has returned after two archives and two packages, two files of
\* a kind were scanned by different workers, and a bar goroutine has yet to
\* take a result
C38_Witness ==
    /\ pool.phase = "returned"
    /\ \A k \in Kinds : pool.found[k] = MaxWork
    /\ \E m, n \in 1..Len(pool.scanned) :
          /\ pool.scanned[m].kind = pool.scanned[n].kind
          /\ pool.scanned[m].worker # pool.scanned[n].worker
    /\ \E k \in Kinds : pool.results[k] # <<>>

\* C39: once the scanner has returned, having read the tee's reader to its
\* end or having given up on an error of the archive format, the tee's
\* producer task has eventually closed its pipes and the fingerprint task,
\* with the hashers it waits for, has eventually sent its result.
C39_TeeTasksTerminate ==
    (tee.phase = "running" /\ tee.cons \in {"eof", "stopped"})
        ~> (tee.prod = "closed" /\ tee.future # 0)

\* C40: a call of Digest on a hasher that has been closed returns, the first
\* call and every later one, and all of them return the same digest.
C40_DigestRepeatable ==
    /\ [](\A n \in 1..Len(hasher.returned) : hasher.returned[n] = hasher.returned[1])
    /\ (hasher.phase = "closed" /\ hasher.caller = "receiving")
          ~> (hasher.caller = "idle")
====
